---- MODULE Spec2Model ----
(***************************************************************************)
(* StoryTeller: the playback state machine of src/static/socket_handlers.py *)
(* (main sequence / branch traversal, the generation-stamped timer loop    *)
(* and the per-room filtered broadcast), with the storyline activation     *)
(* route of src/routes.py.                                                 *)
(*                                                                         *)
(* Indices (current_block, current_inject) keep the source's 0-based       *)
(* values; TLA+ sequences are 1-based, so seq[i + 1] reads element i.      *)
(* Python's None is the string "None"; a missing inject is NoInject.       *)
(*                                                                         *)
(* Scheduling.  The server runs Flask-SocketIO without eventlet or gevent  *)
(* (src/app.py installs flask, flask-socketio and werkzeug only), so event *)
(* handlers and inject_timer_loop run on preemptive threads and no lock    *)
(* guards the shared playback state.  Each event handler is one action;    *)
(* the timer loop is split at socketio.sleep and after each of its two     *)
(* generation checks, the places where a handler running in between can    *)
(* change the state the loop has just validated.                           *)
(***************************************************************************)
EXTENDS Integers, Sequences, FiniteSets, TLC

\* The timer generation counter is unbounded in the code; handlers that
\* would push it past MaxTimerId are disabled.
MaxTimerId == 2

None == "None"

Min(S) == CHOOSE x \in S : \A y \in S : x <= y

Range(f) == {f[i] : i \in DOMAIN f}

\* faulty variant: nothing is removed
RemoveFirst_keeps_all(seq, x) == seq

\* list.remove(x): drops the first occurrence only
RemoveFirst(seq, x) ==
    LET I == {i \in 1..Len(seq) : seq[i] = x}
    IN  IF I = {} THEN seq
        ELSE [j \in 1..(Len(seq) - 1) |-> IF j < Min(I) THEN seq[j] ELSE seq[j + 1]]

(***************************************************************************)
(* Narrative data                                                          *)
(***************************************************************************)
\* an inject: of its content only id and duration are modelled; gm_notes
\* and target_player_types are the moderator-only fields
Beat(i, d, t) ==
    [id |-> i, duration |-> d, target_player_types |-> t, gm_notes |-> "notes"]

NoInject == Beat(None, 0, {})

Branch(i, p, a, m, inj) ==
    [id |-> i, parent_inject_id |-> p, auto_trigger |-> a,
     merge_to_inject_id |-> m, injects |-> inj, current_inject |-> 0]

\* app_data['player_types']: the declared audience segments
player_types == {"Alpha", "Bravo"}

RoomOf(player_type) ==
    IF player_type = None THEN "player_generic" ELSE "player_" \o player_type

all_player_rooms == {RoomOf(None)} \cup {RoomOf(pt) : pt \in player_types}

\* room[7:], the player type a room name carries (None for player_generic)
RoomType(room) ==
    IF room = "player_generic" THEN None
    ELSE CHOOSE pt \in player_types : RoomOf(pt) = room

\* The storylines playback is exercised on.  Every one satisfies the
\* authoring rule: an auto-trigger branch is the only branch of its parent.
MainABC == << Beat("A", 0, {}), Beat("B", 2, {"Alpha"}), Beat("C", 0, {"Bravo"}) >>

MainAB == << Beat("A", 1, {}), Beat("B", 1, {"Alpha"}) >>

\* no branches
Linear == [blocks |-> MainABC, branches |-> << >>]

\* auto-trigger branch on A merging back to its own parent
Loop ==
    [blocks |-> MainAB,
     branches |-> << Branch("R", "A", TRUE, "A", << Beat("R1", 1, {"Bravo"}) >>) >>]

\* the same with a manual branch on the other beat
LoopManual ==
    [blocks |-> MainAB,
     branches |-> << Branch("R", "A", TRUE, "A", << Beat("R1", 1, {"Bravo"}) >>),
                     Branch("M", "B", FALSE, None, << Beat("M1", 1, {}) >>) >>]

\* auto-trigger branch on A merging forward to C
AutoForward ==
    [blocks |-> MainABC,
     branches |-> << Branch("R", "A", TRUE, "C",
                            << Beat("R1", 0, {"Bravo"}), Beat("R2", 1, {}) >>) >>]

\* auto-trigger branch on B merging to its own parent; manual branch on C
\* merging back to A
AutoSelf ==
    [blocks |-> MainABC,
     branches |-> << Branch("R", "B", TRUE, "B", << Beat("R1", 0, {}) >>),
                     Branch("M", "C", FALSE, "A", << Beat("M1", 0, {"Alpha"}) >>) >>]

\* two manual branches on B, one without merge target, one merging to C
TwoManual ==
    [blocks |-> MainABC,
     branches |-> << Branch("M", "B", FALSE, None,
                            << Beat("M1", 0, {}), Beat("M2", 0, {"Bravo"}) >>),
                     Branch("N", "B", FALSE, "C", << Beat("N1", 1, {}) >>) >>]

TimedStorylines == {Linear, Loop}

Storylines == {Linear, Loop, LoopManual, AutoForward, AutoSelf, TwoManual}

(***************************************************************************)
(* State                                                                   *)
(***************************************************************************)
VARIABLES
    active_storyline,   \* app_data['active_storyline']: "s1" or None
    blocks,             \* storyline['blocks']
    branches,           \* storyline['branches'], each with its current_inject
    current_block,      \* storyline['current_block']
    active_branches,    \* storyline['active_branches'], a list of branch ids
    playback,           \* playback = {playing, remaining, current_source}
    last_shown_inject,  \* last_shown_inject[room]
    timer_id,           \* _timer_id[0]
    timers,             \* position of each inject_timer_loop task, by captured id
    superseded,         \* loops in flight when a moderator command re-armed the timer
    sent,               \* the block_update messages the last step emitted, per player room
    joined,             \* the block_update the last step emitted to a joining connection
    step                \* the last step: advance_to_next's result and path, the inject
                        \* published, the branches auto-triggered, the timer loops in
                        \* flight when it switched playback off

vars == << active_storyline, blocks, branches, current_block, active_branches,
           playback, last_shown_inject, timer_id, timers, superseded, sent, joined, step >>

\* emits by destination: the gm room, every client (no room given), the
\* requesting connection, each player room
NoEmits ==
    [gm |-> << >>, all |-> << >>, conn |-> << >>,
     rooms |-> [r \in all_player_rooms |-> << >>]]

NoStep == [ret |-> FALSE, path |-> "", pub |-> "-", triggered |-> {}, stopped |-> {}]

\* the program state a handler starts from, with nothing emitted yet
State ==
    [active_storyline |-> active_storyline, blocks |-> blocks, branches |-> branches,
     current_block |-> current_block, active_branches |-> active_branches,
     playback |-> playback, last_shown_inject |-> last_shown_inject,
     timer_id |-> timer_id, timers |-> timers, superseded |-> superseded,
     emitted |-> NoEmits, step |-> NoStep]

EmitGm(s, ev) == [s EXCEPT !.emitted.gm = Append(@, ev)]

(***************************************************************************)
(* Traversal engine                                                        *)
(***************************************************************************)
get_storyline(s) == s.active_storyline # None

\* next((b for b in branches if b['id'] == id), None), as an index; 0 = None
FindBranch(brs, id) ==
    LET I == {i \in 1..Len(brs) : brs[i].id = id}
    IN  IF I = {} THEN 0 ELSE Min(I)

\* branch.get('injects') and current_inject < len(injects)
HasPending(b) == b.injects # << >> /\ b.current_inject < Len(b.injects)

InMain(s) == s.blocks # << >> /\ s.current_block < Len(s.blocks)

\* blocks[current_idx]['id'] if blocks and current_idx < len(blocks) else None
CurrentBlockId(s) == IF InMain(s) THEN s.blocks[s.current_block + 1].id ELSE None

\* faulty variant: the branch in focus is played only while it is live
get_current_inject_live_only(s) ==
    IF ~get_storyline(s)
    THEN [s |-> s, inject |-> NoInject, source_type |-> "main"]
    ELSE
    LET src == s.playback.current_source
        bi  == FindBranch(s.branches, src)
        fb  == {i \in 1..Len(s.active_branches) :
                    LET k == FindBranch(s.branches, s.active_branches[i])
                    IN  k # 0 /\ HasPending(s.branches[k])}
        toMain == [s EXCEPT !.playback.current_source = "main"]
    IN  IF src # "main" /\ bi # 0 /\ HasPending(s.branches[bi])
           /\ src \in Range(s.active_branches)
        THEN [s |-> s,
              inject |-> s.branches[bi].injects[s.branches[bi].current_inject + 1],
              source_type |-> "branch"]
        ELSE IF src = "main" /\ InMain(s)
        THEN [s |-> s, inject |-> s.blocks[s.current_block + 1], source_type |-> "main"]
        ELSE IF fb # {}
        THEN LET id == s.active_branches[Min(fb)]
                 b  == s.branches[FindBranch(s.branches, id)]
             IN  [s |-> [s EXCEPT !.playback.current_source = id],
                  inject |-> b.injects[b.current_inject + 1],
                  source_type |-> "branch"]
        ELSE IF InMain(s)
        THEN [s |-> toMain, inject |-> s.blocks[s.current_block + 1],
              source_type |-> "main"]
        ELSE [s |-> toMain, inject |-> NoInject, source_type |-> "main"]

get_current_inject(s) ==
    IF ~get_storyline(s)
    THEN [s |-> s, inject |-> NoInject, source_type |-> "main"]
    ELSE
    LET src == s.playback.current_source
        bi  == FindBranch(s.branches, src)
        fb  == {i \in 1..Len(s.active_branches) :
                    LET k == FindBranch(s.branches, s.active_branches[i])
                    IN  k # 0 /\ HasPending(s.branches[k])}
        toMain == [s EXCEPT !.playback.current_source = "main"]
    IN  IF src # "main" /\ bi # 0 /\ HasPending(s.branches[bi])
        THEN [s |-> s,
              inject |-> s.branches[bi].injects[s.branches[bi].current_inject + 1],
              source_type |-> "branch"]
        ELSE IF src = "main" /\ InMain(s)
        THEN [s |-> s, inject |-> s.blocks[s.current_block + 1], source_type |-> "main"]
        ELSE IF fb # {}
        THEN LET id == s.active_branches[Min(fb)]
                 b  == s.branches[FindBranch(s.branches, id)]
             IN  [s |-> [s EXCEPT !.playback.current_source = id],
                  inject |-> b.injects[b.current_inject + 1],
                  source_type |-> "branch"]
        ELSE IF InMain(s)
        THEN [s |-> toMain, inject |-> s.blocks[s.current_block + 1],
              source_type |-> "main"]
        ELSE [s |-> toMain, inject |-> NoInject, source_type |-> "main"]

\* faulty variant: the target list is never consulted
should_show_ignoring_targets(inject, player_type) == TRUE

\* faulty variant: the untyped (generic) player is filtered like a declared type
should_show_without_catch_all(inject, player_type) ==
    IF inject = NoInject THEN TRUE
    ELSE IF inject.target_player_types = {} THEN TRUE
    ELSE player_type \in inject.target_player_types

should_show_inject_to_player_type(inject, player_type) ==
    IF inject = NoInject THEN TRUE
    ELSE IF inject.target_player_types = {} THEN TRUE
    ELSE IF player_type = None THEN TRUE
    ELSE player_type \in inject.target_player_types

\* faulty variant: gm_notes is copied to the players' block
sanitize_block_for_player_with_notes(block) ==
    IF block = NoInject THEN [id |-> None, duration |-> 0, gm_notes |-> block.gm_notes]
    ELSE [id |-> block.id, duration |-> block.duration, gm_notes |-> block.gm_notes]

\* the copy sent to players: gm_notes and target_player_types are left out
sanitize_block_for_player(block) ==
    IF block = NoInject THEN [id |-> None, duration |-> 0]
    ELSE [id |-> block.id, duration |-> block.duration]

\* the block_update sent when no storyline is active
empty_state ==
    [block |-> sanitize_block_for_player(NoInject),
     all_blocks |-> << >>, current_index |-> 0, total_blocks |-> 0,
     branches |-> << >>, active_branches |-> << >>,
     current_source |-> "main", current_branch_id |-> None,
     current_branch_inject_idx |-> -1]

\* the block_update sent to players for inject, with s the state after
\* get_current_inject; an index of -1 stands for None
player_data(s, inject, source_type) ==
    LET current_branch_id == IF source_type = "branch" THEN s.playback.current_source
                             ELSE None
        bi == FindBranch(s.branches, current_branch_id)
    IN  [block |-> sanitize_block_for_player(inject),
         all_blocks |-> << >>,
         current_index |-> s.current_block,
         total_blocks |-> Len(s.blocks),
         branches |-> << >>,
         active_branches |-> << >>,
         current_source |-> source_type,
         current_branch_id |-> current_branch_id,
         current_branch_inject_idx |->
            IF source_type = "branch" /\ current_branch_id # "main" /\ bi # 0
            THEN s.branches[bi].current_inject ELSE -1]

broadcast_current_block(s) ==
    IF ~get_storyline(s)
    THEN \* emit('block_update', empty_state) without a room: every client
         [s EXCEPT !.emitted.all = Append(@, empty_state),
                   !.step.pub = "empty_state"]
    ELSE
    LET g  == get_current_inject(s)
        s1 == g.s
        cur == g.inject
        shows(room) == should_show_inject_to_player_type(cur, RoomType(room))
    IN  [s1 EXCEPT
            !.emitted.gm = @ \o << "block_update", "state_update" >>,
            !.emitted.rooms =
                [room \in all_player_rooms |->
                    IF shows(room) /\ s1.last_shown_inject[room].id # cur.id
                    THEN Append(@[room], player_data(s1, cur, g.source_type))
                    ELSE @[room]],
            !.last_shown_inject =
                [room \in all_player_rooms |-> IF shows(room) THEN cur ELSE @[room]],
            !.step.pub = cur.id]

broadcast_state_to_gm_only(s) ==
    IF ~get_storyline(s) THEN s
    ELSE LET g == get_current_inject(s)
         IN  [g.s EXCEPT !.emitted.gm = @ \o << "block_update", "state_update" >>]

\* faulty variant: a connection joining while the current inject is hidden from its
\* type is sent nothing
broadcast_to_single_player_visible_only(s, player_type) ==
    IF ~get_storyline(s)
    THEN [s EXCEPT !.emitted.conn =
                        Append(@, [room |-> RoomOf(player_type), data |-> empty_state])]
    ELSE
    LET g    == get_current_inject(s)
        s1   == g.s
        room == RoomOf(player_type)
    IN  IF should_show_inject_to_player_type(g.inject, player_type)
        THEN [s1 EXCEPT !.last_shown_inject[room] = g.inject,
                        !.emitted.conn =
                            Append(@, [room |-> room,
                                       data |-> player_data(s1, g.inject,
                                                            g.source_type)])]
        ELSE s1

broadcast_to_single_player(s, player_type) ==
    IF ~get_storyline(s)
    THEN [s EXCEPT !.emitted.conn =
                        Append(@, [room |-> RoomOf(player_type),
                                   data |-> empty_state])]
    ELSE
    LET g    == get_current_inject(s)
        s1   == g.s
        room == RoomOf(player_type)
    IN  IF should_show_inject_to_player_type(g.inject, player_type)
        THEN [s1 EXCEPT !.last_shown_inject[room] = g.inject,
                        !.emitted.conn =
                            Append(@, [room |-> room,
                                       data |-> player_data(s1, g.inject,
                                                            g.source_type)])]
        ELSE [s1 EXCEPT !.emitted.conn =
                            Append(@, [room |-> room,
                                       data |-> player_data(
                                                    s1, s1.last_shown_inject[room],
                                                    g.source_type)])]

\* faulty variant: a branch that is already active is appended again
check_auto_trigger_branches_again(s) ==
    IF ~get_storyline(s) \/ ~InMain(s) THEN s
    ELSE
    LET current_block_id == s.blocks[s.current_block + 1].id
        fires(b) == /\ b.auto_trigger
                    /\ b.parent_inject_id = current_block_id
                    /\ b.injects # << >>
        added == SelectSeq(s.branches, fires)
    IN  [s EXCEPT
            !.active_branches = @ \o [i \in 1..Len(added) |-> added[i].id],
            !.branches = [i \in 1..Len(@) |->
                            IF fires(@[i]) THEN [@[i] EXCEPT !.current_inject = 0]
                            ELSE @[i]],
            !.step.triggered = @ \cup {added[i].id : i \in 1..Len(added)}]

\* faulty variant: a branch without injects is activated as well
check_auto_trigger_branches_empty_too(s) ==
    IF ~get_storyline(s) \/ ~InMain(s) THEN s
    ELSE
    LET current_block_id == s.blocks[s.current_block + 1].id
        fires(b) == /\ b.auto_trigger
                    /\ b.parent_inject_id = current_block_id
                    /\ b.id \notin Range(s.active_branches)
        added == SelectSeq(s.branches, fires)
    IN  [s EXCEPT
            !.active_branches = @ \o [i \in 1..Len(added) |-> added[i].id],
            !.branches = [i \in 1..Len(@) |->
                            IF fires(@[i]) THEN [@[i] EXCEPT !.current_inject = 0]
                            ELSE @[i]],
            !.step.triggered = @ \cup {added[i].id : i \in 1..Len(added)}]

check_auto_trigger_branches(s) ==
    IF ~get_storyline(s) \/ ~InMain(s) THEN s
    ELSE
    LET current_block_id == s.blocks[s.current_block + 1].id
        fires(b) == /\ b.auto_trigger
                    /\ b.parent_inject_id = current_block_id
                    /\ b.id \notin Range(s.active_branches)
                    /\ b.injects # << >>
        added == SelectSeq(s.branches, fires)
    IN  [s EXCEPT
            !.active_branches = @ \o [i \in 1..Len(added) |-> added[i].id],
            !.branches = [i \in 1..Len(@) |->
                            IF fires(@[i]) THEN [@[i] EXCEPT !.current_inject = 0]
                            ELSE @[i]],
            !.step.triggered = @ \cup {added[i].id : i \in 1..Len(added)}]

\* faulty variant: the bound test is current < len(blocks), one past the last beat
advance_main_past_end(s) ==
    IF ~get_storyline(s) THEN [s EXCEPT !.step.ret = FALSE]
    ELSE IF s.current_block < Len(s.blocks)
    THEN LET s1 == [s EXCEPT !.current_block = @ + 1,
                             !.playback.current_source = "main",
                             !.step.path = @ \o "main"]
         IN  [broadcast_current_block(check_auto_trigger_branches(s1))
                EXCEPT !.step.ret = TRUE]
    ELSE [s EXCEPT !.step.ret = FALSE, !.step.path = @ \o "end"]

advance_main(s) ==
    IF ~get_storyline(s) THEN [s EXCEPT !.step.ret = FALSE]
    ELSE IF s.current_block < Len(s.blocks) - 1
    THEN LET s1 == [s EXCEPT !.current_block = @ + 1,
                             !.playback.current_source = "main",
                             !.step.path = @ \o "main"]
         IN  [broadcast_current_block(check_auto_trigger_branches(s1))
                EXCEPT !.step.ret = TRUE]
    ELSE [s EXCEPT !.step.ret = FALSE, !.step.path = @ \o "end"]

\* faulty variant: a waiting branch is looked for only below the last main beat
WaitingBranch_below_last(s) ==
    LET cands == {i \in 1..Len(s.active_branches) :
                    LET k == FindBranch(s.branches, s.active_branches[i])
                    IN  /\ k # 0
                        /\ HasPending(s.branches[k])
                        /\ s.branches[k].parent_inject_id = CurrentBlockId(s)}
    IN  IF cands = {} \/ s.current_block >= Len(s.blocks) - 1 THEN 0 ELSE Min(cands)

\* faulty variant: among the waiting branches the first of the branch list wins
WaitingBranch_by_branch_list(s) ==
    LET cands == {i \in 1..Len(s.active_branches) :
                    LET k == FindBranch(s.branches, s.active_branches[i])
                    IN  /\ k # 0
                        /\ HasPending(s.branches[k])
                        /\ s.branches[k].parent_inject_id = CurrentBlockId(s)}
        first == Min({FindBranch(s.branches, s.active_branches[i]) : i \in cands})
    IN  IF cands = {} THEN 0
        ELSE Min({i \in cands : FindBranch(s.branches, s.active_branches[i]) = first})

\* the first active branch (in active_branches order) that is attached to the
\* current main inject and still has an inject to play; 0 if none
WaitingBranch(s) ==
    LET cands == {i \in 1..Len(s.active_branches) :
                    LET k == FindBranch(s.branches, s.active_branches[i])
                    IN  /\ k # 0
                        /\ HasPending(s.branches[k])
                        /\ s.branches[k].parent_inject_id = CurrentBlockId(s)}
    IN  IF cands = {} THEN 0 ELSE Min(cands)

SwitchTo(s, branch_id) ==
    [broadcast_current_block([s EXCEPT !.playback.current_source = branch_id,
                                       !.step.path = @ \o "switch"])
        EXCEPT !.step.ret = TRUE]

\* faulty variant: the test is current < len(injects), so the last inject is stepped over
branch_has_more_off_by_one(branch) == branch.current_inject < Len(branch.injects)

\* current < len(branch.get('injects', [])) - 1
branch_has_more(branch) == branch.current_inject < Len(branch.injects) - 1

\* faulty variant: the merge resumes at the beat after the merge target
merge_after_target(s, merge_idx) ==
    LET s2 == [s EXCEPT !.current_block = merge_idx + 1,
                        !.playback.current_source = "main",
                        !.step.path = "merge"]
    IN  [broadcast_current_block(check_auto_trigger_branches(s2))
            EXCEPT !.step.ret = TRUE]

\* the merge: the main cursor jumps to the merge target, focus returns to main
merge_to_target(s, merge_idx) ==
    LET s2 == [s EXCEPT !.current_block = merge_idx,
                        !.playback.current_source = "main",
                        !.step.path = "merge"]
    IN  [broadcast_current_block(check_auto_trigger_branches(s2))
            EXCEPT !.step.ret = TRUE]

\* faulty variant: a branch in focus is advanced whether or not it is live
advance_to_next_resumes_stopped(s) ==
    IF ~get_storyline(s) THEN [s EXCEPT !.step.ret = FALSE]
    ELSE
    LET current_source == s.playback.current_source
        bi == FindBranch(s.branches, current_source)
    IN  IF current_source = "main"
        THEN IF WaitingBranch(s) # 0
             THEN SwitchTo(s, s.active_branches[WaitingBranch(s)])
             ELSE advance_main(s)
        ELSE IF bi # 0 \/ current_source \in Range(s.active_branches)
        THEN IF bi = 0 THEN advance_main(s)
             ELSE
             LET branch == s.branches[bi]
             IN  IF branch_has_more(branch)
                 THEN [broadcast_current_block(
                          [s EXCEPT !.branches[bi].current_inject = @ + 1,
                                    !.step.path = @ \o "branch"])
                        EXCEPT !.step.ret = TRUE]
                 ELSE
                 LET s1 == [s EXCEPT !.active_branches = RemoveFirst(@, current_source),
                                     !.step.path = @ \o "exhausted:"]
                     merge_to == branch.merge_to_inject_id
                     M == {i \in 1..Len(s.blocks) : s.blocks[i].id = merge_to}
                 IN  IF merge_to # None /\ M # {}
                     THEN merge_to_target(s1, Min(M) - 1)
                     ELSE IF WaitingBranch(s1) # 0
                     THEN SwitchTo(s1, s1.active_branches[WaitingBranch(s1)])
                     ELSE advance_main([s1 EXCEPT !.playback.current_source = "main"])
        ELSE advance_main([s EXCEPT !.playback.current_source = "main",
                                    !.step.path = @ \o "stopped:"])

advance_to_next(s) ==
    IF ~get_storyline(s) THEN [s EXCEPT !.step.ret = FALSE]
    ELSE
    LET current_source == s.playback.current_source
        bi == FindBranch(s.branches, current_source)
    IN  IF current_source = "main"
        THEN IF WaitingBranch(s) # 0
             THEN SwitchTo(s, s.active_branches[WaitingBranch(s)])
             ELSE advance_main(s)
        ELSE IF current_source \in Range(s.active_branches)
        THEN IF bi = 0 THEN advance_main(s)
             ELSE
             LET branch == s.branches[bi]
             IN  IF branch_has_more(branch)
                 THEN [broadcast_current_block(
                          [s EXCEPT !.branches[bi].current_inject = @ + 1,
                                    !.step.path = @ \o "branch"])
                        EXCEPT !.step.ret = TRUE]
                 ELSE
                 LET s1 == [s EXCEPT !.active_branches = RemoveFirst(@, current_source),
                                     !.step.path = @ \o "exhausted:"]
                     merge_to == branch.merge_to_inject_id
                     M == {i \in 1..Len(s.blocks) : s.blocks[i].id = merge_to}
                 IN  IF merge_to # None /\ M # {}
                     THEN merge_to_target(s1, Min(M) - 1)
                     ELSE IF WaitingBranch(s1) # 0
                     THEN SwitchTo(s1, s1.active_branches[WaitingBranch(s1)])
                     ELSE advance_main([s1 EXCEPT !.playback.current_source = "main"])
        ELSE advance_main([s EXCEPT !.playback.current_source = "main",
                                    !.step.path = @ \o "stopped:"])

(***************************************************************************)
(* Timer loop                                                              *)
(***************************************************************************)
start_inject_timer(s) ==
    LET g == get_current_inject(s)
        duration == g.inject.duration
        id == s.timer_id + 1
    IN  [g.s EXCEPT
            !.playback.remaining = duration,
            !.timer_id = id,
            !.emitted.gm = Append(@, "playback_update"),
            !.timers = IF duration > 0 /\ g.s.playback.playing /\ id \in DOMAIN @
                       THEN [@ EXCEPT ![id] = "sleep"] ELSE @]

\* the while test of inject_timer_loop: sleep again or leave the loop
LoopTest(s, t) ==
    [s EXCEPT !.timers[t] =
        IF s.playback.playing /\ s.playback.remaining > 0 THEN "sleep" ELSE "idle"]

(***************************************************************************)
(* Event handlers and the activation route                                 *)
(***************************************************************************)
\* if playback['playing']: start_inject_timer()
RearmIfPlaying(s) == IF s.playback.playing THEN start_inject_timer(s) ELSE s

handle_gm_connected(s) == broadcast_current_block(s)

handle_player_connected(s, player_type) == broadcast_to_single_player(s, player_type)

handle_next_block(s) ==
    LET t == advance_to_next(s)
    IN  IF t.step.ret THEN RearmIfPlaying(t) ELSE t

handle_previous_block(s) ==
    LET s1 == IF get_storyline(s) /\ s.current_block > 0
              THEN [s EXCEPT !.current_block = @ - 1,
                             !.playback.current_source = "main"]
              ELSE s
    IN  RearmIfPlaying(broadcast_current_block(s1))

\* faulty variant: every jump is a full reset, not only the jump to index 0
handle_go_to_block_always_resets(s, index) ==
    LET s1 == IF get_storyline(s) /\ 0 <= index /\ index < Len(s.blocks)
              THEN check_auto_trigger_branches(
                      [s EXCEPT !.current_block = index,
                                !.playback.current_source = "main",
                                !.active_branches = << >>,
                                !.branches = [i \in 1..Len(@) |->
                                                [@[i] EXCEPT !.current_inject = 0]]])
              ELSE s
    IN  RearmIfPlaying(broadcast_current_block(s1))

handle_go_to_block(s, index) ==
    LET s1 == IF get_storyline(s) /\ 0 <= index /\ index < Len(s.blocks)
              THEN LET j == [s EXCEPT !.current_block = index,
                                      !.playback.current_source = "main"]
                       r == IF index = 0
                            THEN [j EXCEPT
                                    !.active_branches = << >>,
                                    !.branches = [i \in 1..Len(@) |->
                                                    [@[i] EXCEPT !.current_inject = 0]]]
                            ELSE j
                   IN  check_auto_trigger_branches(r)
              ELSE s
    IN  RearmIfPlaying(broadcast_current_block(s1))

\* faulty variant: the jump is carried out only while the main cursor is on
\* the branch's parent beat
handle_go_to_branch_inject_at_parent(s, branch_id, inject_index) ==
    LET bi == FindBranch(s.branches, branch_id)
        s1 == IF /\ get_storyline(s)
                 /\ bi # 0
                 /\ 0 <= inject_index
                 /\ inject_index < Len(s.branches[bi].injects)
                 /\ s.branches[bi].parent_inject_id = CurrentBlockId(s)
              THEN [s EXCEPT
                      !.branches[bi].current_inject = inject_index,
                      !.active_branches =
                          IF branch_id \notin Range(@) THEN Append(@, branch_id) ELSE @,
                      !.playback.current_source = branch_id]
              ELSE s
    IN  RearmIfPlaying(broadcast_current_block(s1))

handle_go_to_branch_inject(s, branch_id, inject_index) ==
    LET bi == FindBranch(s.branches, branch_id)
        s1 == IF /\ get_storyline(s)
                 /\ bi # 0
                 /\ 0 <= inject_index
                 /\ inject_index < Len(s.branches[bi].injects)
              THEN [s EXCEPT
                      !.branches[bi].current_inject = inject_index,
                      !.active_branches =
                          IF branch_id \notin Range(@) THEN Append(@, branch_id) ELSE @,
                      !.playback.current_source = branch_id]
              ELSE s
    IN  RearmIfPlaying(broadcast_current_block(s1))

\* faulty variant: playback is switched on whether or not a storyline is active
handle_toggle_playback_unguarded(s, playing) ==
    IF playing
    THEN start_inject_timer(
            check_auto_trigger_branches([s EXCEPT !.playback.playing = TRUE]))
    ELSE EmitGm([s EXCEPT !.playback.playing = FALSE, !.playback.remaining = 0],
                "playback_update")

handle_toggle_playback(s, playing) ==
    IF s.active_storyline = None
    THEN EmitGm(s, "playback_update:error")
    ELSE IF playing
    THEN start_inject_timer(
            check_auto_trigger_branches([s EXCEPT !.playback.playing = TRUE]))
    ELSE EmitGm([s EXCEPT !.playback.playing = FALSE, !.playback.remaining = 0,
                          !.step.stopped = {t \in DOMAIN s.timers : s.timers[t] # "idle"}],
                "playback_update")

\* faulty variant: activation leaves the cursor where it was
handle_activate_branch_keeps_cursor(s, branch_id) ==
    LET bi == FindBranch(s.branches, branch_id)
        s1 == IF get_storyline(s) /\ bi # 0 /\ branch_id \notin Range(s.active_branches)
              THEN [s EXCEPT !.active_branches = Append(@, branch_id)]
              ELSE s
    IN  broadcast_state_to_gm_only(s1)

handle_activate_branch(s, branch_id) ==
    LET bi == FindBranch(s.branches, branch_id)
        s1 == IF get_storyline(s) /\ bi # 0 /\ branch_id \notin Range(s.active_branches)
              THEN [s EXCEPT !.active_branches = Append(@, branch_id),
                             !.branches[bi].current_inject = 0]
              ELSE s
    IN  broadcast_state_to_gm_only(s1)

\* faulty variant: deactivating the branch in focus returns focus to main, whether or
\* not the branch was active
handle_deactivate_branch_to_main(s, branch_id) ==
    LET s1 == IF s.playback.current_source = branch_id
              THEN [s EXCEPT !.playback.current_source = "main"] ELSE s
    IN  IF get_storyline(s) /\ branch_id \in Range(s.active_branches)
        THEN broadcast_state_to_gm_only(
                [s1 EXCEPT !.active_branches = RemoveFirst(@, branch_id)])
        ELSE s1

handle_deactivate_branch(s, branch_id) ==
    IF get_storyline(s) /\ branch_id \in Range(s.active_branches)
    THEN broadcast_state_to_gm_only(
            [s EXCEPT !.active_branches = RemoveFirst(@, branch_id)])
    ELSE s

\* POST /api/storylines/activate
activate_storyline(s) ==
    [s EXCEPT !.active_storyline = "s1",
              !.current_block = 0,
              !.active_branches = << >>,
              !.branches = [i \in 1..Len(@) |-> [@[i] EXCEPT !.current_inject = 0]]]

(***************************************************************************)
(* Specification                                                           *)
(***************************************************************************)
BranchIds == {branches[i].id : i \in 1..Len(branches)} \cup {"unknown"}

MaxInjects == 2

InitOver(S) ==
    /\ \E sl \in S : blocks = sl.blocks /\ branches = sl.branches
    /\ active_storyline = None
    /\ current_block = 0
    /\ active_branches = << >>
    /\ playback = [playing |-> FALSE, remaining |-> 0, current_source |-> "main"]
    /\ last_shown_inject = [r \in all_player_rooms |-> NoInject]
    /\ timer_id = 0
    /\ timers = [t \in 1..MaxTimerId |-> "idle"]
    /\ superseded = {}
    /\ sent = NoEmits.rooms
    /\ joined = << >>
    /\ step = NoStep

Init == InitOver(TimedStorylines)

Commit(t) ==
    /\ t.timer_id <= MaxTimerId
    /\ active_storyline' = t.active_storyline
    /\ blocks' = t.blocks
    /\ branches' = t.branches
    /\ current_block' = t.current_block
    /\ active_branches' = t.active_branches
    /\ playback' = t.playback
    /\ last_shown_inject' = t.last_shown_inject
    /\ timer_id' = t.timer_id
    /\ timers' = t.timers
    /\ superseded' = {x \in t.superseded : t.timers[x] # "idle"}
    /\ sent' = t.emitted.rooms
    /\ joined' = t.emitted.conn
    /\ step' = t.step

\* a moderator command: when it re-arms the timer, the loops then in flight
\* are the ones it supersedes
Command(t) ==
    Commit([t EXCEPT !.superseded =
                IF t.timer_id # timer_id
                THEN @ \cup {x \in DOMAIN timers : timers[x] # "idle"}
                ELSE @])

ActivateStoryline == Commit(activate_storyline(State))

GmConnected == Commit(handle_gm_connected(State))

PlayerConnected ==
    \E pt \in player_types \cup {None} :
        Commit(handle_player_connected(State, pt))

NextBlock == Command(handle_next_block(State))

PreviousBlock == Command(handle_previous_block(State))

GoToBlock ==
    \E index \in 0..Len(blocks) :
        Command(handle_go_to_block(State, index))

GoToBranchInject ==
    \E b \in BranchIds, i \in 0..MaxInjects :
        Command(handle_go_to_branch_inject(State, b, i))

TogglePlayback ==
    \E p \in BOOLEAN :
        Command(handle_toggle_playback(State, p))

ActivateBranch ==
    \E b \in BranchIds :
        Command(handle_activate_branch(State, b))

DeactivateBranch ==
    \E b \in BranchIds :
        Command(handle_deactivate_branch(State, b))

\* inject_timer_loop wakes from socketio.sleep(1): the generation and playing checks
TimerWake ==
    \E t \in DOMAIN timers :
        /\ timers[t] = "sleep"
        /\ LET s == State
           IN  Commit([s EXCEPT !.timers[t] =
                          IF t # s.timer_id \/ ~s.playback.playing
                          THEN "idle" ELSE "checked"])

\* playback['remaining'] -= 1, the emit, the expiry test and its generation check
TimerDecrement ==
    \E t \in DOMAIN timers :
        /\ timers[t] = "checked"
        /\ LET s  == State
               s1 == EmitGm([s EXCEPT !.playback.remaining = @ - 1], "playback_update")
           IN  IF s1.playback.remaining <= 0 /\ s1.playback.playing
               THEN Commit([s1 EXCEPT !.timers[t] =
                              IF t # s1.timer_id THEN "idle" ELSE "expired"])
               ELSE Commit(LoopTest(s1, t))

\* faulty variant: at the end of the narrative playing stays true
timer_expired_keeps_playing(s) ==
    LET s1 == advance_to_next(s)
    IN  IF s1.step.ret THEN start_inject_timer(s1)
        ELSE EmitGm(s1, "playback_update:stopped")

\* the expiry branch of inject_timer_loop:
\* if advance_to_next(): start_inject_timer()
\* else: playing = False, and the tick with the literal payload
\* {'playing': False, 'remaining': 0} goes to the moderator room
timer_expired(s) ==
    LET s1 == advance_to_next(s)
    IN  IF s1.step.ret THEN start_inject_timer(s1)
        ELSE EmitGm([s1 EXCEPT !.playback.playing = FALSE], "playback_update:stopped")

\* the expiry branch, then the while test
TimerAdvance ==
    \E t \in DOMAIN timers :
        /\ timers[t] = "expired"
        /\ Commit(LoopTest(timer_expired(State), t))

Next ==
    \/ ActivateStoryline
    \/ GmConnected
    \/ PlayerConnected
    \/ NextBlock
    \/ PreviousBlock
    \/ GoToBlock
    \/ GoToBranchInject
    \/ TogglePlayback
    \/ ActivateBranch
    \/ DeactivateBranch
    \/ TimerWake
    \/ TimerDecrement
    \/ TimerAdvance

\* playback commands, joins and the timer loops, on the storylines in
\* TimedStorylines
Spec == Init /\ [][Next]_vars

\* navigation with playback never started (playing stays false, no timer
\* loop exists), on every storyline
InitNav == InitOver(Storylines)

NextNav ==
    \/ ActivateStoryline
    \/ GmConnected
    \/ PlayerConnected
    \/ NextBlock
    \/ PreviousBlock
    \/ GoToBlock
    \/ GoToBranchInject
    \/ ActivateBranch
    \/ DeactivateBranch

SpecNav == InitNav /\ [][NextNav]_vars

(***************************************************************************)
(* Properties                                                              *)
(***************************************************************************)
AllBeats ==
    Range(blocks) \cup UNION {Range(branches[i].injects) : i \in 1..Len(branches)}

BeatById(id) == CHOOSE b \in AllBeats : b.id = id

\* a delivered block is 'no beat', untargeted, or targeted at the segment
VisibleTo(id, pt) ==
    \/ id = None
    \/ BeatById(id).target_player_types = {}
    \/ pt \in BeatById(id).target_player_types

Generic == RoomOf(None)

Republish(s) == broadcast_current_block([broadcast_current_block(s) EXCEPT !.emitted = NoEmits])

\* C3: in every reachable state, the state with no active storyline included,
\* a second publish right after a publish sends no message to any audience
\* segment.
C3_RepublishIsSilent ==
    /\ Republish(State).emitted.all = << >>
    /\ \A room \in all_player_rooms : Republish(State).emitted.rooms[room] = << >>

\* what the code does guarantee: with a storyline active the second publish
\* reaches no player room
C3_RepublishIsSilentWhenActive ==
    active_storyline # None =>
        /\ Republish(State).emitted.all = << >>
        /\ \A room \in all_player_rooms : Republish(State).emitted.rooms[room] = << >>

\* a step that ran advance_to_next on the active storyline
AdvanceStep == step'.path # ""

\* C4: on an active storyline without branches, an advance below the last
\* beat succeeds and moves the main cursor by exactly one; an advance at the
\* last beat fails and leaves cursor, focus, live branches and branch cursors
\* as they were.
C4_LinearAdvance ==
    [][ (branches = << >> /\ AdvanceStep)
        => IF current_block < Len(blocks) - 1
           THEN step'.ret /\ current_block' = current_block + 1
           ELSE /\ ~step'.ret
                /\ current_block' = current_block
                /\ playback'.current_source = playback.current_source
                /\ active_branches' = active_branches
                /\ branches' = branches ]_vars

\* an advance at the last beat of the branchless storyline has failed
C4_Witness ==
    /\ branches = << >>
    /\ step.path = "end"
    /\ ~step.ret
    /\ current_block = Len(blocks) - 1

MainIds == {blocks[i].id : i \in 1..Len(blocks)}

\* 0-based index of the main beat with this id
MainIndexOf(id) == Min({i \in 1..Len(blocks) : blocks[i].id = id}) - 1

\* branch b is live, in focus and at its last beat, and names a merge target
\* that is a beat of the main sequence
AboutToMerge(b) ==
    /\ active_storyline # None
    /\ playback.current_source = b.id
    /\ b.id \in Range(active_branches)
    /\ b.current_inject = Len(b.injects) - 1
    /\ b.merge_to_inject_id \in MainIds

\* C5 as stated: the advance issued there succeeds, sets the main cursor to
\* the merge target's index and focus to 'main', and leaves the branch out of
\* the live branches.
C5_MergeRemovesBranch ==
    [][ \A i \in 1..Len(branches) :
          (AboutToMerge(branches[i]) /\ AdvanceStep)
          => /\ step'.ret
             /\ current_block' = MainIndexOf(branches[i].merge_to_inject_id)
             /\ playback'.current_source = "main"
             /\ branches[i].id \notin Range(active_branches') ]_vars

\* C5 amended: as above, except that an auto-trigger branch whose parent is
\* the merge target is live again after the advance, re-added by auto-trigger
\* detection with its cursor at 0; every other branch is no longer live.
C5_MergeCorrectness ==
    [][ \A i \in 1..Len(branches) :
          (AboutToMerge(branches[i]) /\ AdvanceStep)
          => LET b == branches[i]
                 retriggered == b.auto_trigger /\ b.parent_inject_id = b.merge_to_inject_id
             IN  /\ step'.ret
                 /\ current_block' = MainIndexOf(b.merge_to_inject_id)
                 /\ playback'.current_source = "main"
                 /\ (b.id \in Range(active_branches')) <=> retriggered
                 /\ retriggered =>
                      /\ branches'[i].current_inject = 0
                      /\ b.id \in step'.triggered
                      /\ Cardinality({j \in 1..Len(active_branches') :
                                        active_branches'[j] = b.id}) = 1 ]_vars

\* a branch has merged into its own parent beat and is live again
C5_Witness ==
    /\ step.path = "merge"
    /\ step.ret
    /\ \E i \in 1..Len(branches) :
          /\ branches[i].id \in step.triggered
          /\ branches[i].merge_to_inject_id = branches[i].parent_inject_id
          /\ CurrentBlockId(State) = branches[i].merge_to_inject_id
          /\ playback.current_source = "main"

\* C6: whenever auto-trigger detection has just added a branch for parent
\* beat P, the current inject is the main beat P, and the branch's first
\* beat is what the next advance shows.
C6_MainShownBeforeBranch ==
    step.triggered # {} =>
        LET g == get_current_inject(State)
        IN  /\ g.source_type = "main"
            /\ g.inject.id = CurrentBlockId(State)
            /\ \A id \in step.triggered :
                  LET b == branches[FindBranch(branches, id)]
                  IN  /\ b.parent_inject_id = g.inject.id
                      /\ get_current_inject(advance_to_next(State)).inject = b.injects[1]

\* entries of active_branches for branches attached to parent beat p
LiveOn(p) ==
    {i \in 1..Len(active_branches) :
        LET k == FindBranch(branches, active_branches[i])
        IN  k # 0 /\ branches[k].parent_inject_id = p}

AutoLiveOn(p) ==
    {i \in LiveOn(p) : branches[FindBranch(branches, active_branches[i])].auto_trigger}

\* C7: no parent beat has more than one live auto-trigger branch entry, and
\* a parent beat with a live auto-trigger branch has no other live branch.
C7_OneLiveAutoTriggerPerParent ==
    \A p \in MainIds :
        /\ Cardinality(AutoLiveOn(p)) <= 1
        /\ AutoLiveOn(p) # {} => LiveOn(p) = AutoLiveOn(p)

\* detection has just made the auto-trigger branch live while playback runs
C7_Witness ==
    /\ step.triggered # {}
    /\ playback.playing
    /\ \A id \in step.triggered : id \in Range(active_branches)

\* C8: a timer loop that was in flight when a moderator command re-armed the
\* timer never decrements remaining (leaves "checked") and never calls
\* advance_to_next (leaves "expired") afterwards.
C8_SupersededTimersAreInert ==
    [][ \A t \in superseded :
          /\ ~(timers[t] = "checked" /\ timers'[t] # "checked")
          /\ ~(timers[t] = "expired" /\ timers'[t] # "expired") ]_vars

\* the states the main cursor arrives in by a jump or by a main advance
Arrivals ==
    IF active_storyline = None THEN {}
    ELSE {handle_go_to_block(State, i) : i \in 0..(Len(blocks) - 1)}
         \cup {a \in {advance_to_next(State)} :
                  a.step.ret /\ a.step.path \in {"main", "exhausted:main", "stopped:main"}}

\* the states after 0, 1, ..., k consecutive advance commands from s
RECURSIVE Advances(_, _)
Advances(s, k) ==
    IF k = 0 THEN << s >>
    ELSE LET r == Advances(s, k - 1)
         IN  Append(r, handle_next_block([r[Len(r)] EXCEPT !.emitted = NoEmits,
                                                          !.step = NoStep]))

\* auto-trigger branches attached to the current main beat of s whose merge
\* target is a main beat
MergingAutoBranchesAt(s) ==
    {i \in 1..Len(s.branches) :
        /\ s.branches[i].auto_trigger
        /\ s.branches[i].injects # << >>
        /\ s.branches[i].parent_inject_id = CurrentBlockId(s)
        /\ s.branches[i].merge_to_inject_id \in MainIds}

\* n + 1 advances from s show R1, ..., Rn and then X, all succeeding, and end
\* on the index of X with focus 'main'
WalksBranch(s, i) ==
    LET R == s.branches[i]
        n == Len(R.injects)
        r == Advances(s, n + 1)
    IN  /\ \A j \in 1..(n + 1) :
              /\ r[j + 1].step.ret
              /\ get_current_inject(r[j + 1]).inject.id =
                    IF j <= n THEN R.injects[j].id ELSE R.merge_to_inject_id
        /\ r[n + 2].current_block = MainIndexOf(R.merge_to_inject_id)
        /\ r[n + 2].playback.current_source = "main"

LiveAfterWalk(s, i) ==
    s.branches[i].id \in
        Range(Advances(s, Len(s.branches[i].injects) + 1)[Len(s.branches[i].injects) + 2]
                .active_branches)

\* C9 as stated: once the main cursor has arrived at the parent P of an
\* auto-trigger branch R merging to X, n + 1 advances show R1..Rn and X and
\* leave the cursor on X, focus 'main' and R not live.
C9_AutoBranchWalk ==
    \A s \in Arrivals : \A i \in MergingAutoBranchesAt(s) :
        WalksBranch(s, i) /\ ~LiveAfterWalk(s, i)

\* C9 amended: the same when the detection run on that arrival is what made R
\* live (R was not live already); afterwards R is not live unless X is R's
\* own parent P, where detection has made it live again.
C9_AutoBranchWalkWhenTriggered ==
    \A s \in Arrivals : \A i \in MergingAutoBranchesAt(s) :
        s.branches[i].id \in s.step.triggered =>
            /\ WalksBranch(s, i)
            /\ LiveAfterWalk(s, i) <=>
                  (s.branches[i].merge_to_inject_id = s.branches[i].parent_inject_id)

\* the end of the walk A, R1, R2, C: R has merged forward into C
C9_Witness ==
    /\ blocks = AutoForward.blocks
    /\ Len(branches) = 1
    /\ branches[1].merge_to_inject_id = "C"
    /\ step.path = "merge"
    /\ step.ret
    /\ current_block = 2
    /\ playback.current_source = "main"
    /\ active_branches = << >>
    /\ step.pub = "C"

\* the program state without the record of what the handler emitted
Settled(s) == [s EXCEPT !.emitted = NoEmits, !.step = NoStep]

\* C10: deactivate_branch on a branch that is not live changes nothing, and
\* a second deactivate_branch of the same id changes nothing the first left.
C10_DeactivateIdempotent ==
    \A b \in BranchIds :
        LET once  == handle_deactivate_branch(State, b)
            twice == handle_deactivate_branch(Settled(once), b)
        IN  /\ b \notin Range(active_branches) => Settled(once) = State
            /\ Settled(twice) = Settled(once)

\* a branch was deactivated while in focus mid-sequence: it is no longer live
\* and still has focus
C10_Witness ==
    \E i \in 1..Len(branches) :
        /\ active_storyline # None
        /\ playback.current_source = branches[i].id
        /\ branches[i].id \notin Range(active_branches)
        /\ branches[i].current_inject > 0

\* the playback state a command may change: main cursor, focus, playing,
\* remaining, live branches, branch cursors, timer generation
Position(s) ==
    [current_block |-> s.current_block,
     playback |-> s.playback,
     active_branches |-> s.active_branches,
     cursors |-> [i \in 1..Len(s.branches) |-> s.branches[i].current_inject],
     timer_id |-> s.timer_id]

\* the results of the commands naming a main index, a branch or a branch
\* inject that does not resolve
UnresolvedJumps(s) ==
    {handle_go_to_block(s, Len(s.blocks)), handle_go_to_block(s, -1)}
    \cup {handle_go_to_branch_inject(s, "unknown", 0)}
    \cup {handle_go_to_branch_inject(s, s.branches[i].id, Len(s.branches[i].injects)) :
            i \in 1..Len(s.branches)}

UnresolvedCommands(s) ==
    UnresolvedJumps(s) \cup {handle_activate_branch(s, "unknown"),
                             handle_deactivate_branch(s, "unknown")}

\* the results of every command (valid arguments included)
AllCommands(s) ==
    {handle_next_block(s), handle_previous_block(s)}
    \cup {handle_go_to_block(s, i) : i \in -1..Len(s.blocks)}
    \cup {handle_go_to_branch_inject(s, b, i) : b \in BranchIds, i \in 0..MaxInjects}
    \cup {handle_toggle_playback(s, p) : p \in BOOLEAN}
    \cup {handle_activate_branch(s, b) : b \in BranchIds}
    \cup {handle_deactivate_branch(s, b) : b \in BranchIds}

\* C11: a command whose main index, branch id or branch index does not
\* resolve, and any command issued with no storyline active, leaves main
\* cursor, focus, live branches, branch cursors, playing, remaining and the
\* timer generation as they were.
C11_UnresolvedCommandsChangeNothing ==
    /\ \A t \in UnresolvedCommands(State) : Position(t) = Position(State)
    /\ active_storyline = None =>
          \A t \in AllCommands(State) : Position(t) = Position(State)

\* what the code does guarantee: the same while playback is stopped and the
\* focus names main or a branch that still has an inject to play
C11_UnresolvedCommandsChangeNothingWhenStopped ==
    (/\ ~playback.playing
     /\ get_current_inject(State).s = State)
    => \A t \in UnresolvedCommands(State) : Position(t) = Position(State)

\* messages to the moderator room, to every client, to a joining connection
\* or to a player room
Silent(t) == t.emitted = NoEmits

\* C12: with a storyline active, a jump to a main index out of range, a jump
\* to an unknown branch or to a branch index out of range, and the
\* activation of an unknown branch emit no message at all.
C12_UnresolvedCommandsAreSilent ==
    active_storyline # None =>
        \A t \in UnresolvedJumps(State) \cup {handle_activate_branch(State, "unknown")} :
            Silent(t)

C14_StoppedTimersAreInert ==
    [][ /\ active_storyline # None =>
              LET t == handle_toggle_playback(State, FALSE)
              IN  ~t.playback.playing /\ t.playback.remaining = 0
        /\ \A t \in step.stopped :
              /\ ~(timers[t] = "checked" /\ timers'[t] # "checked")
              /\ ~(timers[t] = "expired" /\ timers'[t] # "expired") ]_vars

\* what the code does guarantee: a loop that was still in its one-second
\* sleep when playback was switched off leaves the loop at its next wake-up,
\* whether or not playback was switched on again in between
C14_SleepingTimersStop ==
    [][ \A t \in DOMAIN timers :
          (/\ timers[t] = "sleep" /\ timers'[t] # "sleep"
           /\ (~playback.playing \/ t # timer_id))
          => timers'[t] = "idle" /\ playback' = playback ]_vars

\* broadcast_current_block's messages to the moderator room
Published(t) == "block_update" \in Range(t.emitted.gm)

\* the timer was re-armed for the current beat: a new generation and
\* remaining set to the beat's duration
Rearmed(s, t) ==
    /\ t.timer_id = s.timer_id + 1
    /\ t.playback.remaining = get_current_inject(t).inject.duration

\* C15: with a storyline active, every moderator command publishes the state
\* on completion and, if playing is true afterwards, re-arms the timer for
\* the current beat.
C15_CommandsPublishAndRearm ==
    active_storyline # None =>
        \A t \in AllCommands(State) :
            /\ Published(t)
            /\ t.playback.playing => Rearmed(State, t)

\* what the code does guarantee: goBack, the two jumps and every advance that
\* succeeds publish and, when playing, re-arm the timer
C15_JumpsPublishAndRearm ==
    active_storyline # None =>
        \A t \in {handle_previous_block(State)}
                 \cup {handle_go_to_block(State, i) : i \in -1..Len(blocks)}
                 \cup {handle_go_to_branch_inject(State, b, i) :
                          b \in BranchIds, i \in 0..MaxInjects}
                 \cup {n \in {handle_next_block(State)} : n.step.ret} :
            /\ Published(t)
            /\ t.playback.playing => Rearmed(State, t)

\* C16: after goBack on an active storyline the focus is 'main', the main
\* cursor is one less than before (unchanged at 0), and the live branches
\* and every branch cursor are as before.
C16_GoBackFrame ==
    active_storyline # None =>
        LET t == handle_previous_block(State)
        IN  /\ t.playback.current_source = "main"
            /\ t.current_block = IF current_block > 0 THEN current_block - 1 ELSE 0
            /\ t.active_branches = active_branches
            /\ t.branches = branches

\* what the code does guarantee: the same frame, with the focus forced to
\* 'main' only when the cursor was above 0
C16_GoBackFrameAboveZero ==
    active_storyline # None =>
        LET t == handle_previous_block(State)
        IN  /\ current_block > 0 => t.playback.current_source = "main"
            /\ t.current_block = IF current_block > 0 THEN current_block - 1 ELSE 0
            /\ t.active_branches = active_branches
            /\ t.branches = branches

\* C17: a join, in every state, sends exactly one initial-state message, to
\* the joining connection and nowhere else; it carries the current beat when
\* that is visible to the segment (always, for the catch-all), and otherwise
\* the beat the segment was last shown, 'no beat' if there was none.
C17_JoinGetsInitialState ==
    \A pt \in player_types \cup {None} :
        LET t    == handle_player_connected(State, pt)
            cur  == get_current_inject(State).inject
            last == last_shown_inject[RoomOf(pt)]
            visible == pt = None \/ VisibleTo(cur.id, pt)
        IN  /\ Len(t.emitted.conn) = 1
            /\ t.emitted.conn[1].room = RoomOf(pt)
            /\ t.emitted.conn[1].data.block =
                  IF visible THEN [id |-> cur.id, duration |-> cur.duration]
                  ELSE [id |-> last.id, duration |-> last.duration]
            /\ t.emitted.rooms = NoEmits.rooms
            /\ t.emitted.all = << >>
            /\ t.emitted.gm = << >>

\* an Alpha connection has joined while the current beat is hidden from
\* Alpha and Alpha had been shown nothing yet: it was sent 'no beat'
C17_Witness ==
    /\ active_storyline # None
    /\ joined # << >>
    /\ joined[1].room = RoomOf("Alpha")
    /\ joined[1].data.block.id = None
    /\ get_current_inject(State).inject.id # None
    /\ ~VisibleTo(get_current_inject(State).inject.id, "Alpha")

\* C18: a moderator join, in every reachable state, sends no message to any
\* audience segment and leaves every segment's lastShown entry unchanged.
C18_ModeratorJoinIsPrivate ==
    LET t == handle_gm_connected(State)
    IN  /\ t.emitted.rooms = NoEmits.rooms
        /\ t.emitted.all = << >>
        /\ t.last_shown_inject = last_shown_inject

\* the same with a storyline active, where the publish goes through the
\* change detection against what each room was last shown
C18_ModeratorJoinIsPrivateWhenActive ==
    active_storyline # None => C18_ModeratorJoinIsPrivate

\* what the code does guarantee: with a storyline active, the rooms a
\* moderator join sends to are those whose last shown beat differs from the
\* current one
C18_ModeratorJoinPublishesChanges ==
    active_storyline # None =>
        LET t   == handle_gm_connected(State)
            cur == get_current_inject(State).inject
        IN  /\ t.emitted.all = << >>
            /\ \A room \in all_player_rooms :
                  t.emitted.rooms[room] # << >> =>
                      /\ last_shown_inject[room].id # cur.id
                      /\ t.emitted.rooms[room][1].block.id = cur.id

\* every message a step sends to a player room, to a joining connection or
\* to every client
AudienceMessages(t) ==
    UNION {Range(t.emitted.rooms[room]) : room \in all_player_rooms}
    \cup {t.emitted.conn[i].data : i \in DOMAIN t.emitted.conn}
    \cup Range(t.emitted.all)

AudienceTraffic(t) == [rooms |-> t.emitted.rooms, conn |-> t.emitted.conn, all |-> t.emitted.all]

\* the message carries no notes, no targeting, no main sequence, no branch
\* list and no live-branch set
Sanitized(m) ==
    /\ "gm_notes" \notin DOMAIN m.block
    /\ "target_player_types" \notin DOMAIN m.block
    /\ m.all_blocks = << >>
    /\ m.branches = << >>
    /\ m.active_branches = << >>

\* the same state with the notes of every beat rewritten
OtherNotes(s) ==
    LET F(b) == [b EXCEPT !.gm_notes = "other notes"]
    IN  [s EXCEPT
            !.blocks = [i \in 1..Len(@) |-> F(@[i])],
            !.branches = [i \in 1..Len(@) |->
                            [@[i] EXCEPT !.injects = [j \in 1..Len(@) |-> F(@[j])]]],
            !.last_shown_inject = [room \in all_player_rooms |-> F(@[room])]]

\* the same state with the targeting of every beat removed
OtherTargets(s) ==
    LET F(b) == [b EXCEPT !.target_player_types = {}]
    IN  [s EXCEPT
            !.blocks = [i \in 1..Len(@) |-> F(@[i])],
            !.branches = [i \in 1..Len(@) |->
                            [@[i] EXCEPT !.injects = [j \in 1..Len(@) |-> F(@[j])]]],
            !.last_shown_inject = [room \in all_player_rooms |-> F(@[room])]]

Variant(s, field) == IF field = "gm_notes" THEN OtherNotes(s) ELSE OtherTargets(s)

\* the events a client can send, with the branch id or player type (id) and
\* the index or flag (n) they carry
Events ==
    [op : {"next_block", "previous_block", "gm_connected"}, id : {""}, n : {0}]
    \cup [op : {"go_to_block"}, id : {""}, n : 0..Len(blocks)]
    \cup [op : {"go_to_branch_inject"}, id : BranchIds, n : 0..MaxInjects]
    \cup [op : {"toggle_playback"}, id : {""}, n : {0, 1}]
    \cup [op : {"activate_branch", "deactivate_branch"}, id : BranchIds, n : {0}]
    \cup [op : {"player_connected"}, id : player_types \cup {None}, n : {0}]

\* the handler registered for the event, run from s
Handle(s, e) ==
    CASE e.op = "next_block" -> handle_next_block(s)
      [] e.op = "previous_block" -> handle_previous_block(s)
      [] e.op = "gm_connected" -> handle_gm_connected(s)
      [] e.op = "go_to_block" -> handle_go_to_block(s, e.n)
      [] e.op = "go_to_branch_inject" -> handle_go_to_branch_inject(s, e.id, e.n)
      [] e.op = "toggle_playback" -> handle_toggle_playback(s, e.n = 1)
      [] e.op = "activate_branch" -> handle_activate_branch(s, e.id)
      [] e.op = "deactivate_branch" -> handle_deactivate_branch(s, e.id)
      [] e.op = "player_connected" -> handle_player_connected(s, e.id)

\* every event sends the audience the same messages from State and from the
\* state that differs in the field only, and the two resulting states again
\* differ in the field only
IndependentOf(field) ==
    \A e \in Events :
        LET a == Handle(State, e)
            b == Handle(Variant(State, field), e)
        IN  /\ AudienceTraffic(a) = AudienceTraffic(b)
            /\ Variant(Settled(a), field) = Settled(b)

AllSteps(s) ==
    AllCommands(s) \cup {handle_gm_connected(s)}
    \cup {handle_player_connected(s, pt) : pt \in player_types \cup {None}}

\* C19 as stated: no audience message carries notes, targeting, the main
\* sequence, the branch list or the live-branch set, and states that differ
\* only in the beats' notes or only in their targeting send the audience the
\* same messages for the same commands.
C19_AudienceSeesNoModeratorFields ==
    /\ \A t \in AllSteps(State) : \A m \in AudienceMessages(t) : Sanitized(m)
    /\ IndependentOf("gm_notes")
    /\ IndependentOf("target_player_types")

\* C19 amended: no audience message carries those fields, and states that
\* differ only in the beats' notes send the audience the same messages for
\* the same commands and stay equal up to the notes.
C19_AudienceSeesNoNotes ==
    /\ \A t \in AllSteps(State) : \A m \in AudienceMessages(t) : Sanitized(m)
    /\ IndependentOf("gm_notes")

\* a targeted beat has just been published to a player room: the message
\* sent is the sanitized one
C19_Witness ==
    /\ step.pub = "B"
    /\ sent[RoomOf("Alpha")] # << >>
    /\ sent[RoomOf("Alpha")][1].block.id = "B"
    /\ BeatById("B").gm_notes # ""
    /\ BeatById("B").target_player_types # {}

\* advance_main when save_data raises: the cursor and focus are already
\* assigned, the exception leaves the handler before detection and publish
advance_main_save_fails(s) ==
    [s EXCEPT !.current_block = @ + 1,
              !.playback.current_source = "main",
              !.step.path = "raised"]

\* handle_go_to_block when save_data raises: the jump (and the reset of the
\* branches at index 0) is already assigned, nothing after it runs
handle_go_to_block_save_fails(s, index) ==
    LET j == [s EXCEPT !.current_block = index,
                       !.playback.current_source = "main",
                       !.step.path = "raised"]
    IN  IF index = 0
        THEN [j EXCEPT !.active_branches = << >>,
                       !.branches = [i \in 1..Len(@) |->
                                        [@[i] EXCEPT !.current_inject = 0]]]
        ELSE j

\* the commands of State that reach a save_data call in advance_main or in
\* handle_go_to_block, with that call failing
FailedSaves ==
    IF active_storyline = None THEN {}
    ELSE {handle_go_to_block_save_fails(State, i) : i \in 0..(Len(blocks) - 1)}
         \cup {advance_main_save_fails(s) :
                 s \in {x \in {State} : /\ x.playback.current_source = "main"
                                        /\ WaitingBranch(x) = 0
                                        /\ x.current_block < Len(x.blocks) - 1}}

\* C20: when save_data fails in a main advance or a jump, the in-memory
\* mutation is kept and the moderator room is sent a message about it.
C20_SaveFailureWarnsModerator ==
    \A t \in FailedSaves :
        /\ t.playback.current_source = "main"
        /\ t.current_block \in 0..(Len(blocks) - 1)
        /\ t.emitted.gm # << >>

\* what the code does guarantee: the mutation is kept, and nothing at all is
\* emitted
C20_SaveFailureKeepsMutation ==
    \A t \in FailedSaves :
        /\ t.playback.current_source = "main"
        /\ t.current_block \in 0..(Len(blocks) - 1)
        /\ Silent(t)

(***************************************************************************)
(* The store's editing routes                                              *)
(***************************************************************************)
\* DELETE /api/blocks/<storyline_id>/<block_id>
delete_block(s, block_id) ==
    LET I == {i \in 1..Len(s.blocks) : s.blocks[i].id = block_id}
    IN  IF I = {} THEN s
        ELSE LET block_idx == Min(I)
                 rest == [i \in 1..(Len(s.blocks) - 1) |->
                            IF i < block_idx THEN s.blocks[i] ELSE s.blocks[i + 1]]
             IN  [s EXCEPT !.blocks = rest,
                           !.current_block =
                               IF @ >= Len(rest)
                               THEN (IF Len(rest) - 1 > 0 THEN Len(rest) - 1 ELSE 0)
                               ELSE @]

\* POST /api/blocks/reorder: [block_map[bid] for bid in order if bid in block_map]
reorder_blocks(s, order) ==
    LET known(bid) == \E i \in 1..Len(s.blocks) : s.blocks[i].id = bid
        kept == SelectSeq(order, known)
        block_map(bid) == s.blocks[CHOOSE i \in 1..Len(s.blocks) :
                                      /\ s.blocks[i].id = bid
                                      /\ \A j \in (i + 1)..Len(s.blocks) :
                                            s.blocks[j].id # bid]
    IN  [s EXCEPT !.blocks = [i \in 1..Len(kept) |-> block_map(kept[i])]]

\* DELETE /api/branches/<storyline_id>/<branch_id>
delete_branch(s, branch_id) ==
    LET branch_idx == FindBranch(s.branches, branch_id)
    IN  IF branch_idx = 0 THEN s
        ELSE [s EXCEPT
                !.active_branches = RemoveFirst(@, branch_id),
                !.branches = [i \in 1..(Len(@) - 1) |->
                                IF i < branch_idx THEN @[i] ELSE @[i + 1]]]

\* the order lists of a reorder request: block ids (and an id that is not in
\* the storyline), none repeated, possibly fewer than the storyline has
Orders ==
    LET ids == {blocks[i].id : i \in 1..Len(blocks)} \cup {"unknown"}
    IN  {o \in UNION {[1..k -> ids] : k \in 0..Len(blocks)} :
            \A i, j \in DOMAIN o : i # j => o[i] # o[j]}

DeleteBlock ==
    \E b \in {blocks[i].id : i \in 1..Len(blocks)} \cup {"unknown"} :
        Commit(delete_block(State, b))

ReorderBlocks ==
    \E o \in Orders :
        Commit(reorder_blocks(State, o))

DeleteBranch ==
    \E b \in BranchIds :
        Commit(delete_branch(State, b))

StoreStorylines == {Loop, AutoForward}

InitStore == InitOver(StoreStorylines)

NextStore ==
    \/ NextNav
    \/ DeleteBlock
    \/ ReorderBlocks
    \/ DeleteBranch

\* navigation interleaved with the deletion and reordering routes
SpecStore == InitStore /\ [][NextStore]_vars

\* C21: in every state reachable by playback commands and the store's
\* deletion and reordering routes, the main cursor is within the main
\* sequence whenever that is non-empty, and every live branch id is the id
\* of a branch of the storyline.
C21_CursorAndLiveBranchesInRange ==
    /\ blocks # << >> => (0 <= current_block /\ current_block < Len(blocks))
    /\ \A i \in DOMAIN active_branches :
          FindBranch(branches, active_branches[i]) # 0

\* what the code does guarantee: the live branches are branches of the
\* storyline, and the cursor is never negative
C21_LiveBranchesExist ==
    /\ 0 <= current_block
    /\ \A i \in DOMAIN active_branches :
          FindBranch(branches, active_branches[i]) # 0

\* POST /api/branches; new_id stands for the uuid the route draws
create_branch(s, new_id, parent_inject_id, auto_trigger) ==
    LET existing_branches ==
            {i \in 1..Len(s.branches) : s.branches[i].parent_inject_id = parent_inject_id}
        existing_auto == \E i \in existing_branches : s.branches[i].auto_trigger
    IN  IF existing_branches # {} /\ (existing_auto \/ auto_trigger)
        THEN s
        ELSE [s EXCEPT !.branches =
                Append(@, Branch(new_id, parent_inject_id, auto_trigger, None, << >>))]

\* PUT /api/branches/<storyline_id>/<branch_id>; data says which of
\* auto_trigger and parent_inject_id the request carries
update_branch(s, branch_id, data) ==
    LET branch_idx == FindBranch(s.branches, branch_id)
    IN  IF branch_idx = 0 THEN s
        ELSE
        LET branch == s.branches[branch_idx]
            new_auto_trigger == IF data.has_auto_trigger THEN data.auto_trigger
                                ELSE branch.auto_trigger
            new_parent_id == IF data.has_parent_inject_id THEN data.parent_inject_id
                             ELSE branch.parent_inject_id
            other_branches ==
                {i \in 1..Len(s.branches) :
                    /\ s.branches[i].parent_inject_id = new_parent_id
                    /\ s.branches[i].id # branch_id}
        IN  IF new_auto_trigger /\ other_branches # {}
            THEN s
            ELSE [s EXCEPT !.branches[branch_idx].auto_trigger = new_auto_trigger,
                           !.branches[branch_idx].parent_inject_id = new_parent_id]

\* POST /api/library/<library_id>/add-branch-to-storyline
add_library_branch_to_storyline(s, new_id, parent_inject_id, library_branch) ==
    [s EXCEPT !.branches =
        Append(@, Branch(new_id, parent_inject_id, library_branch.auto_trigger, None,
                         library_branch.injects))]

\* the ids a route can draw for a new branch
NewIds == {"N1", "N2"}

FreshIds == NewIds \ {branches[i].id : i \in 1..Len(branches)}

\* the branches saved in the inject library
LibraryBranches ==
    {[auto_trigger |-> a, injects |-> << Beat("L1", 0, {}) >>] : a \in BOOLEAN}

Updates ==
    [has_auto_trigger : BOOLEAN, auto_trigger : BOOLEAN,
     has_parent_inject_id : BOOLEAN, parent_inject_id : MainIds]

CreateBranch ==
    \E n \in FreshIds, p \in MainIds, a \in BOOLEAN :
        Commit(create_branch(State, n, p, a))

UpdateBranch ==
    \E b \in BranchIds, d \in Updates :
        Commit(update_branch(State, b, d))

AddLibraryBranch ==
    \E n \in FreshIds, p \in MainIds, l \in LibraryBranches :
        Commit(add_library_branch_to_storyline(State, n, p, l))

AuthorStorylines == {Linear, AutoForward}

InitAuthor == InitOver(AuthorStorylines)

NextAuthor ==
    \/ CreateBranch
    \/ UpdateBranch
    \/ AddLibraryBranch
    \/ DeleteBranch

\* the branch-authoring routes on their own
SpecAuthor == InitAuthor /\ [][NextAuthor]_vars

\* the branches of a list attached to parent p, and the auto-trigger ones
AttachedTo(brs, p) == {i \in 1..Len(brs) : brs[i].parent_inject_id = p}

AutoAttachedTo(brs, p) == {i \in AttachedTo(brs, p) : brs[i].auto_trigger}

\* at most one auto-trigger branch per parent, and then no other branch
OneAutoTriggerPerParent(brs) ==
    \A p \in {brs[i].parent_inject_id : i \in 1..Len(brs)} :
        /\ Cardinality(AutoAttachedTo(brs, p)) <= 1
        /\ AutoAttachedTo(brs, p) # {} => Cardinality(AttachedTo(brs, p)) = 1

\* C22: after any sequence of branch-authoring operations every parent beat
\* has at most one auto-trigger branch attached, and a parent beat with an
\* auto-trigger branch has no other branch attached.
C22_AuthoringKeepsAutoTriggerRule == OneAutoTriggerPerParent(branches)

\* what the code does guarantee: creating a branch and deleting a branch
\* keep the rule
C22_CreateAndDeleteKeepRule ==
    OneAutoTriggerPerParent(branches) =>
        /\ \A n \in FreshIds, p \in MainIds, a \in BOOLEAN :
              OneAutoTriggerPerParent(create_branch(State, n, p, a).branches)
        /\ \A b \in BranchIds :
              OneAutoTriggerPerParent(delete_branch(State, b).branches)

\* C23: a tick is atomic: when a timer loop goes on to decrement remaining
\* (leaves "checked") or to call advance_to_next (leaves "expired"), the
\* generation it validated is still the current one and playing is still
\* true, that is, no command has run since the tick's checks.
C23_TicksAreAtomic ==
    [][ \A t \in DOMAIN timers :
          (\/ timers[t] = "checked" /\ timers'[t] # "checked"
           \/ timers[t] = "expired" /\ timers'[t] # "expired")
          => t = timer_id /\ playback.playing ]_vars

\* what the code does guarantee: a loop passes its generation check on waking
\* (enters "checked") only with the current generation and playing true
C23_TicksValidateOnWake ==
    [][ \A t \in DOMAIN timers :
          (timers[t] = "sleep" /\ timers'[t] = "checked")
          => t = timer_id /\ playback.playing ]_vars

\* ids of the live branches attached to the current main beat of s that
\* still have a beat to play
WaitingIds(s) ==
    {s.active_branches[i] : i \in
        {j \in 1..Len(s.active_branches) :
            LET k == FindBranch(s.branches, s.active_branches[j])
            IN  /\ k # 0
                /\ HasPending(s.branches[k])
                /\ s.branches[k].parent_inject_id = CurrentBlockId(s)}}

\* C24: with focus 'main' and a live branch with a pending beat attached to
\* the current main beat, an advance succeeds, moves focus to such a branch
\* and leaves the main cursor, the live branches and every branch cursor as
\* they were; also at the last main beat.
C24_WaitingBranchTakesPrecedence ==
    [][ (/\ active_storyline # None
         /\ playback.current_source = "main"
         /\ WaitingIds(State) # {}
         /\ AdvanceStep)
        => /\ step'.ret
           /\ playback'.current_source \in WaitingIds(State)
           /\ current_block' = current_block
           /\ active_branches' = active_branches
           /\ branches' = branches ]_vars

\* an advance at the last main beat has switched focus to the branch
\* attached to it
C24_Witness ==
    /\ step.path = "switch"
    /\ step.ret
    /\ current_block = Len(blocks) - 1
    /\ playback.current_source \in WaitingIds([State EXCEPT !.playback.current_source = "main"])

\* branch b is live, in focus and at its last beat, and names no merge target
Exhausting(b) ==
    /\ active_storyline # None
    /\ playback.current_source = b.id
    /\ b.id \in Range(active_branches)
    /\ ~branch_has_more(b)
    /\ b.merge_to_inject_id = None

\* the state advance_to_next looks for another waiting branch in: the
\* exhausted branch is no longer live
WithoutBranch(id) == [State EXCEPT !.active_branches = RemoveFirst(@, id)]

\* C25 as stated: the advance issued there removes the branch from the live
\* branches; if another live branch with a pending beat is attached to the
\* current main beat, focus switches to it and the main cursor stays;
\* otherwise focus becomes 'main' and the main cursor advances by one.
C25_ExhaustedBranchAdvancesMain ==
    [][ \A i \in 1..Len(branches) :
          (Exhausting(branches[i]) /\ AdvanceStep)
          => LET W == WaitingIds(WithoutBranch(branches[i].id))
             IN  /\ branches[i].id \notin Range(active_branches')
                 /\ IF W # {}
                    THEN /\ playback'.current_source \in W
                         /\ current_block' = current_block
                    ELSE /\ playback'.current_source = "main"
                         /\ current_block' = current_block + 1 ]_vars

\* C25 amended: as above, except that with no other branch waiting and the
\* main cursor at the last beat the advance fails: focus becomes 'main', the
\* cursor stays on the last beat and the branch is no longer live.  Below the
\* last beat the advance succeeds and the cursor moves by one from where it
\* was; the branch is live afterwards only if auto-trigger detection on the
\* new beat has added it again.
C25_ExhaustedBranchReturnsToMain ==
    [][ \A i \in 1..Len(branches) :
          (Exhausting(branches[i]) /\ AdvanceStep)
          => LET b == branches[i]
                 W == WaitingIds(WithoutBranch(b.id))
             IN  /\ b.id \in Range(active_branches') => b.id \in step'.triggered
                 /\ IF W # {}
                    THEN /\ step'.ret
                         /\ playback'.current_source \in W
                         /\ current_block' = current_block
                    ELSE /\ playback'.current_source = "main"
                         /\ IF current_block < Len(blocks) - 1
                            THEN step'.ret /\ current_block' = current_block + 1
                            ELSE /\ ~step'.ret
                                 /\ current_block' = current_block
                                 /\ b.id \notin Range(active_branches') ]_vars

\* a branch without merge target has run out while the main cursor was on
\* the last beat: the advance has failed with focus back on 'main'
C25_Witness ==
    /\ step.path = "exhausted:end"
    /\ ~step.ret
    /\ playback.current_source = "main"
    /\ current_block = Len(blocks) - 1
    /\ \E i \in 1..Len(branches) :
          /\ branches[i].merge_to_inject_id = None
          /\ branches[i].id \notin Range(active_branches)
          /\ branches[i].current_inject = Len(branches[i].injects) - 1

\* main cursor, focus, live branches and branch cursors
Traversal(s) ==
    [current_block |-> s.current_block,
     current_source |-> s.playback.current_source,
     active_branches |-> s.active_branches,
     cursors |-> [i \in 1..Len(s.branches) |-> s.branches[i].current_inject]]

\* C26: an advance that returns failure leaves main cursor, focus, live
\* branches and every branch cursor as they were.
C26_FailedAdvanceChangesNothing ==
    LET t == advance_to_next(State)
    IN  ~t.step.ret => Traversal(t) = Traversal(State)

\* what the code does guarantee: the same when the failing advance starts
\* with focus on 'main'
C26_FailedMainAdvanceChangesNothing ==
    LET t == advance_to_next(State)
    IN  (~t.step.ret /\ playback.current_source = "main")
        => Traversal(t) = Traversal(State)

\* C27: deactivate_branch on the live branch in focus removes it from the
\* live branches and leaves focus, main cursor and branch cursors as they
\* were; the current inject is the same branch beat before and after, and no
\* player room, joining connection or broadcast gets a message.
C27_DeactivateFocusedBranchKeepsBeat ==
    \A i \in 1..Len(branches) :
        (/\ active_storyline # None
         /\ playback.current_source = branches[i].id
         /\ branches[i].id \in Range(active_branches))
        => LET t == handle_deactivate_branch(State, branches[i].id)
               before == get_current_inject(State)
               after  == get_current_inject(Settled(t))
           IN  /\ branches[i].id \notin Range(t.active_branches)
               /\ t.playback.current_source = playback.current_source
               /\ t.current_block = current_block
               /\ t.branches = branches
               /\ before.source_type = "branch"
               /\ before.inject = branches[i].injects[branches[i].current_inject + 1]
               /\ after.inject = before.inject
               /\ after.source_type = "branch"
               /\ after.s = Settled(t)
               /\ t.emitted.rooms = NoEmits.rooms
               /\ t.emitted.all = << >>
               /\ t.emitted.conn = << >>

\* the branch in focus has been deactivated while another branch is still
\* live: it keeps the focus and its beat is still the current inject
C27_Witness ==
    \E i \in 1..Len(branches) :
        /\ active_storyline # None
        /\ playback.current_source = branches[i].id
        /\ branches[i].id \notin Range(active_branches)
        /\ active_branches # << >>
        /\ get_current_inject(State).inject = branches[i].injects[branches[i].current_inject + 1]
        /\ sent = NoEmits.rooms

\* auto-trigger detection has run for the current main beat of the next
\* state: every auto-trigger branch with beats attached to it is live
DetectionRan ==
    \A j \in 1..Len(branches') :
        (/\ branches'[j].auto_trigger
         /\ branches'[j].injects # << >>
         /\ branches'[j].parent_inject_id = blocks'[current_block' + 1].id)
        => branches'[j].id \in Range(active_branches')

\* C28: with focus on a branch that is not live, an advance sets focus to
\* 'main'; below the last main beat it succeeds, moves the main cursor by one
\* and runs auto-trigger detection for the new beat, at the last beat it
\* fails and the cursor stays.  The branch is not advanced and does not get
\* the focus back: its cursor is as before (0 if detection has just added
\* the branch again) and the current inject is a main beat.
C28_StoppedBranchReturnsToMain ==
    [][ \A i \in 1..Len(branches) :
          (/\ active_storyline # None
           /\ playback.current_source = branches[i].id
           /\ branches[i].id \notin Range(active_branches)
           /\ AdvanceStep)
          => /\ playback'.current_source = "main"
             /\ IF current_block < Len(blocks) - 1
                THEN /\ step'.ret
                     /\ current_block' = current_block + 1
                     /\ DetectionRan
                ELSE /\ ~step'.ret
                     /\ current_block' = current_block
                     /\ active_branches' = active_branches
             /\ branches'[i].current_inject =
                   IF branches[i].id \in step'.triggered THEN 0
                   ELSE branches[i].current_inject
             /\ branches[i].id \in Range(active_branches')
                   => branches[i].id \in step'.triggered
             /\ step'.path \in {"stopped:main", "stopped:end"} ]_vars

\* an advance from a deactivated branch has moved the main cursor to the
\* next beat, where detection has made a branch live
C28_Witness ==
    /\ step.path = "stopped:main"
    /\ step.ret
    /\ step.triggered # {}
    /\ playback.current_source = "main"
    /\ current_block > 0

\* C29: activate_branch on a branch that is not live appends it to the live
\* branches and sets its cursor to 0; on a branch that is live it changes
\* neither the live branches nor any cursor; in both cases focus and main
\* cursor are as before.
C29_ActivateIdempotent ==
    active_storyline # None =>
        \A i \in 1..Len(branches) :
            LET id == branches[i].id
                t  == handle_activate_branch(State, id)
            IN  /\ IF id \notin Range(active_branches)
                   THEN /\ t.active_branches = Append(active_branches, id)
                        /\ t.branches = [branches EXCEPT ![i].current_inject = 0]
                   ELSE /\ t.active_branches = active_branches
                        /\ t.branches = branches
                /\ t.playback.current_source = playback.current_source
                /\ t.current_block = current_block
                /\ Settled(handle_activate_branch(Settled(t), id)) = Settled(t)

\* what the code does guarantee: the same in every state, as long as the focus
\* yields a beat (get_current_inject has no need of its fallback)
C29_ActivateIdempotentWhenFocusResolves ==
    (/\ active_storyline # None
     /\ get_current_inject(State).s = State
     /\ get_current_inject(State).inject # NoInject) =>
        \A i \in 1..Len(branches) :
            LET id == branches[i].id
                t  == handle_activate_branch(State, id)
            IN  /\ IF id \notin Range(active_branches)
                   THEN /\ t.active_branches = Append(active_branches, id)
                        /\ t.branches = [branches EXCEPT ![i].current_inject = 0]
                   ELSE /\ t.active_branches = active_branches
                        /\ t.branches = branches
                /\ t.playback.current_source = playback.current_source
                /\ t.current_block = current_block

\* C30: go_to_branch_inject with an existing branch and an index within its
\* sequence sets that branch's cursor to the index, makes the branch live if
\* it was not, gives it the focus, so that the current inject is the beat at
\* that index, and leaves the main cursor, the other branches and the other
\* live entries as they were, wherever the main cursor is.
C30_JumpToBranchBeat ==
    active_storyline # None =>
        \A i \in 1..Len(branches) : \A index \in 0..(Len(branches[i].injects) - 1) :
            LET id == branches[i].id
                t  == handle_go_to_branch_inject(State, id, index)
                g  == get_current_inject(Settled(t))
            IN  /\ t.branches = [branches EXCEPT ![i].current_inject = index]
                /\ t.active_branches =
                      IF id \in Range(active_branches) THEN active_branches
                      ELSE Append(active_branches, id)
                /\ t.playback.current_source = id
                /\ g.inject = branches[i].injects[index + 1]
                /\ g.source_type = "branch"
                /\ g.s = Settled(t)
                /\ t.step.pub = branches[i].injects[index + 1].id
                /\ t.current_block = current_block

\* a jump has put the focus on the second beat of a branch whose parent is
\* not the current main beat
C30_Witness ==
    \E i \in 1..Len(branches) :
        /\ active_storyline # None
        /\ step.path = ""
        /\ playback.current_source = branches[i].id
        /\ branches[i].id \in Range(active_branches)
        /\ branches[i].current_inject = 1
        /\ branches[i].parent_inject_id # CurrentBlockId(State)
        /\ step.pub = branches[i].injects[2].id

\* ids of the auto-trigger branches with at least one beat attached to the
\* main beat at this index
AutoBranchesAt(index) ==
    {branches[j].id : j \in
        {k \in 1..Len(branches) :
            /\ branches[k].auto_trigger
            /\ branches[k].injects # << >>
            /\ branches[k].parent_inject_id = blocks[index + 1].id}}

\* C31: go_to_block with a valid index sets the main cursor to it and focus
\* to 'main'.  For index 0 the live branches afterwards are exactly the
\* auto-trigger branches of beat 0 and every branch cursor is 0; for an
\* index above 0 the branches live before are still live, in the same order
\* and with their cursors, the additions are exactly the auto-trigger
\* branches of that beat that were not live (cursor 0), and no other branch
\* cursor changes.
C31_JumpToMainIndex ==
    active_storyline # None =>
        \A index \in 0..(Len(blocks) - 1) :
            LET t     == handle_go_to_block(State, index)
                added == AutoBranchesAt(index) \ Range(active_branches)
            IN  /\ t.current_block = index
                /\ t.playback.current_source = "main"
                /\ get_current_inject(Settled(t)).inject = blocks[index + 1]
                /\ IF index = 0
                   THEN /\ Range(t.active_branches) = AutoBranchesAt(0)
                        /\ Len(t.active_branches) = Cardinality(AutoBranchesAt(0))
                        /\ \A j \in 1..Len(branches) : t.branches[j].current_inject = 0
                   ELSE /\ Len(t.active_branches) = Len(active_branches) + Cardinality(added)
                        /\ SubSeq(t.active_branches, 1, Len(active_branches)) = active_branches
                        /\ Range(t.active_branches) = Range(active_branches) \cup added
                        /\ \A j \in 1..Len(branches) :
                              t.branches[j].current_inject =
                                 IF branches[j].id \in added THEN 0
                                 ELSE branches[j].current_inject

\* a jump to a beat above 0 has kept the branch that was live and added the
\* auto-trigger branch of that beat
C31_Witness ==
    /\ active_storyline # None
    /\ step.path = ""
    /\ step.triggered # {}
    /\ current_block > 0
    /\ playback.current_source = "main"
    /\ Len(active_branches) >= 2
    /\ active_branches[Len(active_branches)] \in step.triggered

\* auto-trigger branch E on B without beats, auto-trigger branch K on C, and
\* a manual branch M on A merging to C
AutoEmpty ==
    [blocks |-> MainABC,
     branches |-> << Branch("E", "B", TRUE, None, << >>),
                     Branch("K", "C", TRUE, None, << Beat("K1", 0, {}) >>),
                     Branch("M", "A", FALSE, "C",
                            << Beat("M1", 0, {}), Beat("M2", 0, {"Alpha"}) >>) >>]

DetectStorylines == {AutoEmpty, AutoSelf}

InitDetect == InitOver(DetectStorylines)

\* navigation on storylines with an auto-trigger branch that has no beats
SpecDetect == InitDetect /\ [][NextNav]_vars

\* the outcomes of the operations that move the main cursor and run
\* detection: a main advance, a merge, a jump to a valid main index
CursorMoves ==
    IF active_storyline = None THEN {}
    ELSE {handle_go_to_block(State, i) : i \in 0..(Len(blocks) - 1)}
         \cup {a \in {advance_to_next(State)} :
                  a.step.ret /\ a.step.path \in
                     {"main", "exhausted:main", "stopped:main", "merge"}}

\* the branches that stay live through the move t: none on the jump to
\* index 0, all but the exhausted branch in focus on a merge or on the
\* advance that follows an exhausted branch, all otherwise
StayingLive(t) ==
    IF t.step.path = "" /\ t.current_block = 0 THEN {}
    ELSE IF t.step.path \in {"merge", "exhausted:main"}
    THEN Range(RemoveFirst(active_branches, playback.current_source))
    ELSE Range(active_branches)

\* C32: after a main advance, a merge or a jump to a main index, every
\* auto-trigger branch with at least one beat attached to the new current
\* main beat is live; a branch added by the move is such a branch and has
\* cursor 0; a branch that stayed live keeps its cursor.
C32_DetectionAfterCursorChange ==
    \A t \in CursorMoves :
        /\ \A j \in 1..Len(t.branches) :
              (/\ t.branches[j].auto_trigger
               /\ t.branches[j].injects # << >>
               /\ t.branches[j].parent_inject_id = CurrentBlockId(t))
              => t.branches[j].id \in Range(t.active_branches)
        /\ \A j \in 1..Len(t.branches) :
              LET b == t.branches[j]
              IN  /\ (b.id \in Range(t.active_branches) \ StayingLive(t))
                     => /\ b.auto_trigger
                        /\ b.injects # << >>
                        /\ b.parent_inject_id = CurrentBlockId(t)
                        /\ b.current_inject = 0
                        /\ b.id \in t.step.triggered
                  /\ b.id \in StayingLive(t)
                     => /\ b.id \in Range(t.active_branches)
                        /\ b.current_inject = branches[j].current_inject

\* the main cursor has advanced onto B, whose auto-trigger branch E has no
\* beats: detection has run and has not made E live
C32_Witness ==
    /\ step.path = "main"
    /\ step.ret
    /\ CurrentBlockId(State) = "B"
    /\ \E j \in 1..Len(branches) :
          /\ branches[j].auto_trigger
          /\ branches[j].injects = << >>
          /\ branches[j].parent_inject_id = "B"
          /\ branches[j].id \notin Range(active_branches)

\* positions in active_branches of the live branches attached to the current
\* main beat that still have a beat to play
WaitingPositions ==
    {j \in 1..Len(active_branches) :
        LET k == FindBranch(branches, active_branches[j])
        IN  /\ k # 0
            /\ HasPending(branches[k])
            /\ branches[k].parent_inject_id = CurrentBlockId(State)}

\* C33: with focus 'main' and two or more live branches with pending beats
\* attached to the current main beat, an advance gives focus to the one
\* that entered active_branches first, whatever its place in the branch list.
C33_FirstAddedWins ==
    [][ (/\ active_storyline # None
         /\ playback.current_source = "main"
         /\ Cardinality(WaitingPositions) >= 2
         /\ AdvanceStep)
        => /\ step'.ret
           /\ playback'.current_source = active_branches[Min(WaitingPositions)] ]_vars

\* the advance has given focus to the branch activated first although the
\* other waiting branch comes first in the branch list
C33_Witness ==
    /\ step.path = "switch"
    /\ step.ret
    /\ Len(active_branches) >= 2
    /\ playback.current_source = active_branches[1]
    /\ FindBranch(branches, active_branches[1]) > FindBranch(branches, active_branches[2])
    /\ FindBranch(branches, active_branches[2]) # 0
    /\ branches[FindBranch(branches, active_branches[1])].parent_inject_id
          = branches[FindBranch(branches, active_branches[2])].parent_inject_id
    /\ HasPending(branches[FindBranch(branches, active_branches[2])])
    /\ CurrentBlockId(State) = branches[FindBranch(branches, active_branches[1])].parent_inject_id

\* C34: when get_current_inject moves the focus to a branch (neither the
\* branch in focus nor the main sequence yields a beat), that branch is
\* live, has a pending beat and is attached to the current main beat.
C34_FallbackKeepsToCurrentBeat ==
    LET g  == get_current_inject(State)
        id == g.s.playback.current_source
        k  == FindBranch(branches, id)
    IN  (id # playback.current_source /\ id # "main")
        => /\ id \in Range(active_branches)
           /\ k # 0
           /\ HasPending(branches[k])
           /\ branches[k].parent_inject_id = CurrentBlockId(State)

\* what the code does guarantee: the branch the fallback gives focus to is
\* live and has a pending beat, which is the inject returned
C34_FallbackPicksLivePending ==
    LET g  == get_current_inject(State)
        id == g.s.playback.current_source
        k  == FindBranch(branches, id)
    IN  (id # playback.current_source /\ id # "main")
        => /\ id \in Range(active_branches)
           /\ k # 0
           /\ HasPending(branches[k])
           /\ g.inject = branches[k].injects[branches[k].current_inject + 1]

\* branch number i is not live before the step and live after it
BecomesLive(i) ==
    /\ branches[i].id \notin Range(active_branches)
    /\ i \in 1..Len(branches')
    /\ branches'[i].id = branches[i].id
    /\ branches'[i].id \in Range(active_branches')

\* the step is go_to_branch_inject on branch number i with this index
IsJumpTo(i, index) ==
    LET t == handle_go_to_branch_inject(State, branches[i].id, index)
    IN  /\ index < Len(branches[i].injects)
        /\ branches' = t.branches
        /\ active_branches' = t.active_branches
        /\ playback' = t.playback
        /\ current_block' = t.current_block

\* C35 as stated: a branch that goes from not live to live, by auto-trigger
\* detection, activate_branch or go_to_branch_inject, has cursor 0 afterwards.
C35_BecomingLiveResetsCursor ==
    [][ \A i \in 1..Len(branches) :
          BecomesLive(i) => branches'[i].current_inject = 0 ]_vars

\* C35 amended: a branch that goes from not live to live has cursor 0
\* afterwards, unless go_to_branch_inject made it live: then its cursor is the
\* index of the jump and the branch has the focus.
C35_BecomingLiveResetsCursorUnlessJump ==
    [][ \A i \in 1..Len(branches) :
          BecomesLive(i)
          => \/ branches'[i].current_inject = 0
             \/ \E index \in 1..MaxInjects :
                   /\ IsJumpTo(i, index)
                   /\ branches'[i].current_inject = index
                   /\ playback'.current_source = branches[i].id ]_vars

\* a branch that is not live and was never entered: go_to_branch_inject to
\* its second beat makes it live with cursor 1
C35_Witness ==
    \E i \in 1..Len(branches) :
        LET t == handle_go_to_branch_inject(State, branches[i].id, 1)
        IN  /\ active_storyline # None
            /\ branches[i].id \notin Range(active_branches)
            /\ branches[i].current_inject = 0
            /\ branches[i].id \in Range(t.active_branches)
            /\ t.branches[i].current_inject = 1
            /\ t.playback.current_source = branches[i].id

\* C36: when the loop of the current generation has counted down to zero
\* with playing true, its expiry branch changes the position by exactly one
\* advance_to_next; if that succeeds the timer is re-armed for the new
\* current beat (new generation, remaining = its duration, a new loop when
\* the duration is above 0), and if it fails playing becomes false and the
\* terminal tick is the message sent to the moderator.  The loop does not
\* call advance_to_next a second time.
C36_ExpiryAdvancesOnce ==
    \A t \in DOMAIN timers :
        (timers[t] = "expired" /\ t = timer_id /\ playback.playing)
        => LET a == advance_to_next(State)
               r == timer_expired(State)
               d == get_current_inject(r).inject.duration
           IN  /\ Traversal(r) = Traversal(a)
               /\ LoopTest(r, t).timers[t] \in {"sleep", "idle"}
               /\ IF a.step.ret
                  THEN /\ r.playback.playing
                       /\ r.timer_id = timer_id + 1
                       /\ r.playback.remaining = d
                       /\ r.emitted.gm[Len(r.emitted.gm)] = "playback_update"
                       /\ (d > 0 /\ r.timer_id \in DOMAIN timers)
                             => r.timers[r.timer_id] = "sleep"
                  ELSE /\ ~r.playback.playing
                       /\ r.emitted.gm[Len(r.emitted.gm)] = "playback_update:stopped"
                       /\ r.timer_id = timer_id
                       /\ r.timers = timers

\* the loop of the current generation has counted down to zero on the last
\* beat: its advance fails and playback stops
C36_Witness ==
    /\ playback.playing
    /\ timer_id \in DOMAIN timers
    /\ timers[timer_id] = "expired"
    /\ playback.remaining = 0
    /\ ~advance_to_next(State).step.ret
    /\ ~timer_expired(State).playback.playing

\* the step is a tick of a timer loop in flight (commands only start loops)
TimerTick ==
    \E t \in DOMAIN timers : timers[t] # "idle" /\ timers'[t] # timers[t]

\* playback is running on a beat of duration 0 and the timer's current
\* generation has no loop
ArmedForZero ==
    /\ active_storyline # None
    /\ playback.playing
    /\ get_current_inject(State).inject.duration = 0
    /\ timer_id \in DOMAIN timers => timers[timer_id] = "idle"

\* C37: arming the timer on a beat of duration 0 starts no loop and still
\* sends the tick to the moderator; while playback waits on such a beat no
\* timer tick changes main cursor, focus, live branches or branch cursors,
\* and playing stays true.
C37_ZeroDurationWaits ==
    [][ /\ (active_storyline # None /\ playback.playing
            /\ get_current_inject(State).inject.duration = 0)
           => LET r == start_inject_timer(State)
              IN  /\ r.timers = timers
                  /\ r.emitted.gm = << "playback_update" >>
        /\ (ArmedForZero /\ TimerTick)
           => /\ current_block' = current_block
              /\ playback'.current_source = playback.current_source
              /\ active_branches' = active_branches
              /\ branches' = branches
              /\ playback'.playing ]_vars

\* what the code does guarantee: arming on a beat of duration 0 starts no
\* loop, sets remaining to 0 and sends the tick to the moderator
C37_ZeroDurationStartsNoLoop ==
    (active_storyline # None /\ playback.playing
     /\ get_current_inject(State).inject.duration = 0)
    => LET r == start_inject_timer(State)
       IN  /\ r.timers = timers
           /\ r.playback.remaining = 0
           /\ r.playback.playing
           /\ r.emitted.gm = << "playback_update" >>

\* auto-trigger branch on A merging forward to B, every duration above 0
ForwardAB ==
    [blocks |-> MainAB,
     branches |-> << Branch("R", "A", TRUE, "B", << Beat("R1", 1, {"Bravo"}) >>) >>]

\* two beats, no branches, every duration above 0
PlainAB == [blocks |-> MainAB, branches |-> << >>]

PlayStorylines == {Loop, ForwardAB, PlainAB}

InitPlay == InitOver(PlayStorylines)

\* the moderator prepares the run while playback is stopped
Prepare ==
    /\ ~playback.playing
    /\ (ActivateStoryline \/ GoToBlock \/ NextBlock)

\* toggle_playback while playback is stopped; once playing is true the
\* moderator issues no further command
Start ==
    /\ ~playback.playing
    /\ TogglePlayback

\* _timer_id[0] grows without bound and only its comparison with the ids of
\* the loops in flight matters: the ids are renumbered from 1 once the loops
\* of the older generations have left
Renumber ==
    LET inflight == {t \in DOMAIN timers : timers[t] # "idle"}
        k == IF inflight = {} THEN timer_id ELSE Min(inflight) - 1
    IN  /\ k > 0
        /\ timer_id' = timer_id - k
        /\ timers' = [t \in DOMAIN timers |->
                         IF t + k \in DOMAIN timers THEN timers[t + k] ELSE "idle"]
        /\ superseded' = {t - k : t \in superseded}
        /\ step' = [step EXCEPT !.stopped = {t - k : t \in step.stopped \cap inflight}]
        /\ UNCHANGED << active_storyline, blocks, branches, current_block,
                        active_branches, playback, last_shown_inject, sent, joined >>

NextPlay ==
    \/ Prepare
    \/ Start
    \/ TimerWake
    \/ TimerDecrement
    \/ TimerAdvance
    \/ Renumber

\* a loop that has reached its expiry branch takes it
ExpiryIsTaken == \A t \in 1..MaxTimerId : []<>(timers[t] # "expired")

\* timer-driven playback: every background task that can run does run (a
\* sleeping loop wakes, a loop past its checks decrements, a loop at its
\* expiry branch takes it)
SpecPlay ==
    /\ InitPlay
    /\ [][NextPlay]_vars
    /\ WF_vars(TimerWake)
    /\ WF_vars(TimerDecrement)
    /\ WF_vars(Renumber)
    /\ ExpiryIsTaken

AllDurationsPositive == \A b \in AllBeats : b.duration > 0

\* C38: with every duration above 0 and no further moderator command,
\* playback that is running eventually stops.
C38_PlaybackEnds ==
    (playback.playing /\ AllDurationsPositive) ~> ~playback.playing

\* every branch merges to a main beat after its parent beat, or not at all
MergesForward ==
    \A i \in 1..Len(branches) :
        \/ branches[i].merge_to_inject_id \notin MainIds
        \/ MainIndexOf(branches[i].merge_to_inject_id) > MainIndexOf(branches[i].parent_inject_id)

\* what the code does guarantee: the same on storylines whose branches merge
\* forward
C38_PlaybackEndsWhenMergesForward ==
    (playback.playing /\ AllDurationsPositive /\ MergesForward) ~> ~playback.playing

(***************************************************************************)
(* C39: joins and what the clients already in a room hold                  *)
(***************************************************************************)
\* the beat the clients already in room hold after the handler result t,
\* when they held the beat `held` before it: the last block_update t sent to
\* the room, and `held` when t sent the room nothing
HeldAfter(t, room, held) ==
    LET msgs == t.emitted.rooms[room]
    IN  IF msgs = << >> THEN held ELSE msgs[Len(msgs)].block.id

\* C39: every client connected to a segment's room has last received the
\* beat recorded in last_shown_inject for that room: when one client has
\* joined and holds the recorded beat, and the storyline is then activated,
\* the join of a second client of the same segment does not move the record
\* to a beat the first client was not sent.
C39_JoinKeepsRoomInStep ==
    \A pt \in player_types \cup {None} :
        LET room   == RoomOf(pt)
            first  == handle_player_connected(State, pt)
            held   == first.emitted.conn[1].data.block.id
            act    == activate_storyline(Settled(first))
            second == handle_player_connected(Settled(act), pt)
        IN  held = first.last_shown_inject[room].id =>
                second.last_shown_inject[room].id = HeldAfter(act, room, held)

\* what the code does guarantee: with a storyline active, the joining
\* client itself is sent the beat the record holds after its join, and the
\* record moves only to the current beat
C39_JoinerHoldsRecord ==
    active_storyline # None =>
        \A pt \in player_types \cup {None} :
            LET room == RoomOf(pt)
                t    == handle_player_connected(State, pt)
                cur  == get_current_inject(State).inject
            IN  /\ t.emitted.conn[1].data.block.id = t.last_shown_inject[room].id
                /\ \/ t.last_shown_inject[room] = last_shown_inject[room]
                   \/ t.last_shown_inject[room] = cur

(***************************************************************************)
(* C40: the timer generation _timer_id[0]                                  *)
(***************************************************************************)
\* a step that arms the timer: start_inject_timer started a new loop
ArmsTimer == \E t \in DOMAIN timers : timers[t] = "idle" /\ timers'[t] # "idle"

\* a step that stops playback: toggle_playback(false), or the expiry that
\* finds nothing to advance to
StopsPlayback == playback.playing /\ ~playback'.playing

\* C40: the timer generation strictly increases on every step that arms or
\* re-arms the timer and on every step that stops it (toggle_playback(false)
\* and the stop at the end of the narrative), and it never decreases.
C40_GenerationCountsArmsAndStops ==
    [][/\ timer_id' >= timer_id
       /\ ArmsTimer => timer_id' > timer_id
       /\ StopsPlayback => timer_id' > timer_id]_vars

\* what the code does guarantee: the generation never decreases, a step
\* that arms the timer raises it, and the stops leave it as it was
C40_GenerationCountsArms ==
    [][/\ timer_id' >= timer_id
       /\ ArmsTimer => timer_id' > timer_id
       /\ StopsPlayback => timer_id' = timer_id]_vars

\* every call of start_inject_timer raises the generation by one, and
\* toggle_playback(false) and the stop at expiry leave it unchanged
C40_OnlyStartRaisesGeneration ==
    /\ start_inject_timer(State).timer_id = timer_id + 1
    /\ handle_toggle_playback(State, FALSE).timer_id = timer_id
    /\ LET t == timer_expired(State)
       IN  t.timer_id = IF advance_to_next(State).step.ret
                        THEN timer_id + 1 ELSE timer_id

====
